---- MODULE Spec2Model ----
(***************************************************************************)
(* Model of the manta control plane (cmd/server): the sandbox lifecycle    *)
(* state machine, the netns pool with its on-demand fallback, the staged   *)
(* restore pipeline behind /create and /snapshot/restore, and the /exec    *)
(* and /destroy handlers.                                                  *)
(*                                                                         *)
(* Two specifications share the variables:                                 *)
(*   SpecLifecycle  one sandbox record whose lifecycle methods are called  *)
(*                  by concurrent callers;                                 *)
(*   Spec           the HTTP handlers running concurrently on the server.  *)
(***************************************************************************)
EXTENDS Integers, Sequences, FiniteSets, TLC

\* ------------------------------------------------------------------ bounds
MaxCallers == 4
MaxReq == 3
PoolSize == 1
MaxIDLen == 4
MaxStrLen == 2
MaxFrames == 2
MaxPoolSlots == 2
MaxInitCalls == 2
MaxRestarts == 1
MaxExecs == 2
MaxDials == 2
LoadTimeoutTicks == 2
MaxStepTicks == 2
MaxSetupCalls == 3
MaxCreates == 3

\* ------------------------------------------------------- program constants
sandboxStateRunning == 0
sandboxStateClosing == 1
sandboxStateClosed == 2

StatusOK == 200
StatusBadRequest == 400
StatusNotFound == 404
StatusConflict == 409
StatusInternalServerError == 500

\* snapshotIDPattern admits one leading character and up to 127 more.
snapshotIDMaxLen == 128
MaxMessageBytes == 8388608

VARIABLES
    \* sandbox records (type sandbox), indexed by the N of "sb-N"
    state,          \* sandbox.state
    inFlightExec,   \* sandbox.inFlightExec
    sbNetns,        \* sandbox.Netns
    sbAgent,        \* sandbox.Agent: "nil" or "open"
    agentMu,        \* sandbox.agentMu: 0 or the request holding it
    \* server
    nextSandboxID,  \* server.nextSandboxID
    nextSubnet,     \* server.nextSubnet
    sandboxes,      \* server.sandboxes (the registry): set of IDs
    poolCh,         \* netnsPool.ch
    \* host
    vmm,            \* per sandbox: the VMM process
    dir,            \* per sandbox: the jail directory exists
    netnsUp,        \* names of the network namespaces that exist
    \* requests being served, one goroutine each
    req,
    onDemandLog,    \* history: subnet indices allocated by the fallback path
    \* callers of the lifecycle methods (SpecLifecycle)
    caller,
    \* snapshot store
    golden,         \* the golden bundle under <workdir>/snapshot
    goldenBuilds,   \* history: how often ensureSnapshot built the bundle
    goldenUsed,     \* history: the bundles ensureSnapshot returned, as found or built
    snapFS,         \* the directories that exist (paths from the root)
    del,            \* the last /snapshot/delete request and its answer
    vmPaused,       \* per sandbox: the VM is paused
    nextSnapshotID, \* server.nextSnapshotID
    \* agentrpc
    wire,           \* one connection: the bytes in flight and what was read
    \* netnsPool and the process that owns it
    pool,
    \* the agent connections of one sandbox and the exec handlers using them
    link,
    \* one run of loadSnapshotWithRetry and the clock
    loader,
    \* calls of setupSandboxNetnsAndRouting and what exists on the host
    setup,
    \* concurrent creates running ensureSnapshot and the golden bundle's files
    build

vars == <<state, inFlightExec, sbNetns, sbAgent, agentMu, nextSandboxID,
          nextSubnet, sandboxes, poolCh, vmm, dir, netnsUp, req, onDemandLog,
          caller, golden, goldenBuilds, goldenUsed, snapFS, del, vmPaused,
          nextSnapshotID, wire, pool, link,
          loader, setup, build>>

wireVars == <<wire>>

poolVars == <<pool>>

linkVars == <<link>>

loaderVars == <<loader>>

setupVars == <<setup>>

buildVars == <<build>>

storeVars == <<golden, goldenBuilds, goldenUsed, snapFS, del, vmPaused,
               nextSnapshotID>>

coreVars == <<sbNetns, sbAgent, agentMu, nextSandboxID, nextSubnet,
              sandboxes, poolCh, vmm, dir, netnsUp, req, onDemandLog>>

serverVars == <<coreVars, storeVars, wireVars, poolVars, linkVars, loaderVars, setupVars, buildVars>>

IDs == 1..MaxReq
Reqs == 1..MaxReq
Callers == 1..MaxCallers

\* =========================================================================
\* Sandbox lifecycle (lifecycle methods of type sandbox)
\* =========================================================================

\* The sandbox record the callers of SpecLifecycle share.
LcSb == CHOOSE i \in IDs : \A j \in IDs : i <= j

tryStartExecAdmitsAnyOpen(st) == st # sandboxStateClosed
\* tryStartExec: the state test under lifecycleMu; TRUE when err == nil.
tryStartExecAdmits(st) == st = sandboxStateRunning

finishExecKeepsCount(n) == n
\* finishExec: the counter after the call.
finishExecCount(n) == IF n > 0 THEN n - 1 ELSE n

beginDestroyFromAny(st) == st # sandboxStateClosing
\* beginDestroy: the return value.
beginDestroyWins(st) == st = sandboxStateRunning

beginDestroyReopens(st) == IF st = sandboxStateClosed THEN sandboxStateRunning ELSE sandboxStateClosing
\* beginDestroy: the state after the call.
beginDestroyState(st) == IF beginDestroyWins(st) THEN sandboxStateClosing ELSE st

waitForExecDrainAnyCount(n) == n >= 0
\* waitForExecDrain: one poll of the counter; TRUE ends the wait with true.
waitForExecDrainDone(n) == n = 0

\* finishDestroy: the state after the call.
finishDestroyState(st) == sandboxStateClosed

NoCaller == [kind |-> "none", pc |-> "idle", ret |-> "none", drain |-> "none"]

\* An exec caller calls tryStartExec.
LcTryStartExec(c) ==
    /\ caller[c].pc = "idle"
    /\ \A d \in 1..(c - 1) : caller[d].pc # "idle"
    /\ LET ok == tryStartExecAdmits(state[LcSb]) IN
        /\ inFlightExec' = [inFlightExec EXCEPT ![LcSb] = IF ok THEN @ + 1 ELSE @]
        /\ caller' = [caller EXCEPT ![c] =
              [kind |-> "exec", pc |-> IF ok THEN "admitted" ELSE "rejected",
               ret |-> IF ok THEN "nil" ELSE "closing", drain |-> "none"]]
    /\ UNCHANGED <<state, serverVars>>

\* An admitted exec caller calls finishExec.
LcFinishExec(c) ==
    /\ caller[c].kind = "exec" /\ caller[c].pc = "admitted"
    /\ inFlightExec' = [inFlightExec EXCEPT ![LcSb] = finishExecCount(@)]
    /\ caller' = [caller EXCEPT ![c].pc = "finished"]
    /\ UNCHANGED <<state, serverVars>>

\* A destroy caller calls beginDestroy.
LcBeginDestroy(c) ==
    /\ caller[c].pc = "idle"
    /\ \A d \in 1..(c - 1) : caller[d].pc # "idle"
    /\ LET won == beginDestroyWins(state[LcSb]) IN
        /\ state' = [state EXCEPT ![LcSb] = beginDestroyState(@)]
        /\ caller' = [caller EXCEPT ![c] =
              [kind |-> "destroy", pc |-> IF won THEN "draining" ELSE "lost",
               ret |-> IF won THEN "true" ELSE "false", drain |-> "none"]]
    /\ UNCHANGED <<inFlightExec, serverVars>>

\* The destroy caller that won polls in waitForExecDrain and sees zero.
LcDrainTrue(c) ==
    /\ caller[c].kind = "destroy" /\ caller[c].pc = "draining"
    /\ waitForExecDrainDone(inFlightExec[LcSb])
    /\ caller' = [caller EXCEPT ![c].pc = "drained", ![c].drain = "true"]
    /\ UNCHANGED <<state, inFlightExec, serverVars>>

\* The deadline passes while the counter is above zero.
LcDrainTimeout(c) ==
    /\ caller[c].kind = "destroy" /\ caller[c].pc = "draining"
    /\ ~waitForExecDrainDone(inFlightExec[LcSb])
    /\ caller' = [caller EXCEPT ![c].pc = "drained", ![c].drain = "false"]
    /\ UNCHANGED <<state, inFlightExec, serverVars>>

\* After the drain (and the teardown) the destroy caller calls finishDestroy.
LcFinishDestroy(c) ==
    /\ caller[c].kind = "destroy" /\ caller[c].pc = "drained"
    /\ state' = [state EXCEPT ![LcSb] = finishDestroyState(@)]
    /\ caller' = [caller EXCEPT ![c].pc = "closed"]
    /\ UNCHANGED <<inFlightExec, serverVars>>

\* =========================================================================
\* Snapshot store: the golden bundle and the user-snapshot directories
\* =========================================================================

\* Configuration the model fixes: snapshots are enabled (the default), so
\* createSandbox goes through the restore pipeline and the lineage is the
\* hash of the base rootfs.
BaseRootfsLineageID == "A"
Lineages == {"", "A", "B"}

\* Strings are sequences of characters; these are the characters requests
\* are built from (a letter, the dot, the path separator, the blank).
Chars == {"a", ".", "/", " "}
RawIDs == UNION {[1..n -> Chars] : n \in 0..MaxIDLen}

RECURSIVE TrimLeft(_)
TrimLeft(s) == IF s # <<>> /\ Head(s) = " " THEN TrimLeft(Tail(s)) ELSE s
RECURSIVE TrimRight(_)
TrimRight(s) ==
    IF s # <<>> /\ s[Len(s)] = " "
    THEN TrimRight(SubSeq(s, 1, Len(s) - 1)) ELSE s
\* strings.TrimSpace
TrimSpace(s) == TrimRight(TrimLeft(s))

\* snapshotIDPattern ^[A-Za-z0-9][A-Za-z0-9._-]{0,127}$ over Chars.
IDFirstChars == {"a"}
IDRestChars == {"a", ".", "_", "-"}
snapshotIDPatternMatch(id) ==
    /\ Len(id) >= 1 /\ Len(id) <= snapshotIDMaxLen
    /\ id[1] \in IDFirstChars
    /\ \A k \in 2..Len(id) : id[k] \in IDRestChars

\* normalizeSnapshotID: the ID it returns.
normalizeSnapshotID(raw) == TrimSpace(raw)

normalizeSnapshotIDNonEmpty(raw) == TrimSpace(raw) # <<>>
\* normalizeSnapshotID: it returns no error.
normalizeSnapshotIDOk(raw) ==
    TrimSpace(raw) # <<>> /\ snapshotIDPatternMatch(TrimSpace(raw))

\* A path is the sequence of its components from the root.
\* The components of a string, cut at each separator.
RECURSIVE SplitSlash(_)
SplitSlash(s) ==
    IF s = <<>> THEN << <<>> >>
    ELSE LET rest == SplitSlash(Tail(s)) IN
         IF Head(s) = "/" THEN << <<>> >> \o rest
         ELSE << <<Head(s)>> \o rest[1] >> \o Tail(rest)

\* filepath.Clean applied while appending components to an absolute path:
\* empty and "." components are dropped, ".." steps up (not above the root).
RECURSIVE CleanOnto(_, _)
CleanOnto(base, comps) ==
    IF comps = <<>> THEN base
    ELSE LET c == Head(comps)
             nb == IF c = <<>> \/ c = <<".">> THEN base
                   ELSE IF c = <<".", ".">>
                        THEN (IF base = <<>> THEN base
                              ELSE SubSeq(base, 1, Len(base) - 1))
                        ELSE Append(base, c) IN
         CleanOnto(nb, Tail(comps))

\* filepath.Join(dir, name)
filepathJoin(path, name) == CleanOnto(path, SplitSlash(name))

WorkDir == << <<"work">> >>
userSnapshotsDir(workDir) == Append(workDir, <<"user-snapshots">>)
userSnapshotRootDir(workDir, snapshotID) ==
    filepathJoin(userSnapshotsDir(workDir), snapshotID)

\* Path q is p or lies below it.
IsUnder(p, q) == Len(q) >= Len(p) /\ SubSeq(q, 1, Len(p)) = p
\* os.RemoveAll(p)
removeAll(fs, p) == {q \in fs : ~IsUnder(p, q)}

\* The directories of a work dir that holds three user snapshots.
InitSnapFS ==
    {WorkDir, Append(WorkDir, <<"sandboxes">>), Append(WorkDir, <<"snapshot">>),
     Append(WorkDir, <<"a">>), userSnapshotsDir(WorkDir)}
    \cup {userSnapshotRootDir(WorkDir, id) :
            id \in {<<"a">>, <<"a", "a">>, <<"a", ".", "a">>}}

NoDel == [raw |-> <<>>, resp |-> 0, target |-> <<>>]

\* handleSnapshotDelete
handleSnapshotDelete ==
    /\ \/ \* the body does not decode
          /\ del' = [NoDel EXCEPT !.resp = StatusBadRequest]
          /\ snapFS' = snapFS
       \/ \E raw \in RawIDs :
          LET target == userSnapshotRootDir(WorkDir, normalizeSnapshotID(raw)) IN
          IF ~normalizeSnapshotIDOk(raw)
          THEN /\ del' = [NoDel EXCEPT !.raw = raw, !.resp = StatusBadRequest]
               /\ snapFS' = snapFS
          ELSE \/ \* os.RemoveAll fails
                  /\ del' = [raw |-> raw, resp |-> StatusInternalServerError,
                             target |-> target]
                  /\ snapFS' = snapFS
               \/ /\ del' = [raw |-> raw, resp |-> StatusOK, target |-> target]
                  /\ snapFS' = removeAll(snapFS, target)
    /\ UNCHANGED <<state, inFlightExec, caller, coreVars, golden, goldenBuilds,
                   goldenUsed, vmPaused, nextSnapshotID, wireVars, poolVars, linkVars, loaderVars, setupVars, buildVars>>

\* The golden bundle in <workdir>/snapshot: whether state.snap and mem.snap
\* exist and the lineage of the rootfs the VM they were taken from ran on
\* (snapOf), the lineage of the rootfs base/rootfs.ext4 was copied from
\* (diskOf, "" when the file is missing), and the version and lineage_id its
\* meta.json carries (version 0: there is no meta.json).
NoGolden == [state |-> FALSE, mem |-> FALSE, snapOf |-> "", diskOf |-> "",
             version |-> 0, lineage |-> ""]
GoldenOf(v, l) == [state |-> TRUE, mem |-> TRUE, snapOf |-> l, diskOf |-> l,
                   version |-> v, lineage |-> l]

\* The meta.json files a work dir can hold: none, or one written for this or
\* another base rootfs with this or another meta version.
GoldenMetas == {<<0, "">>} \cup ({1, 2} \X {"A", "B"})

\* What a server can find in its work dir when it starts: any part of a
\* bundle left by an earlier run.
InitGoldens ==
    {[state |-> st, mem |-> mm, snapOf |-> IF st \/ mm THEN so ELSE "",
      diskOf |-> d, version |-> m[1], lineage |-> m[2]] :
        st \in BOOLEAN, mm \in BOOLEAN, so \in {"A", "B"},
        d \in {"", "A", "B"}, m \in GoldenMetas}

\* ensureSnapshot: the bundle is built only when one of its files is missing
\* ("If snapshot files exist, assume valid").
ensureSnapshotBuilds(g) == ~(g.state /\ g.mem /\ g.diskOf # "")

\* ensureSnapshot, called by a create: return the bundle as found, or build
\* it from the current base rootfs.  A build can fail before the base disk is
\* copied, after the copy, or in createFullSnapshot, after the old state and
\* memory files were removed.  meta.json is neither read nor written.
ensureSnapshot ==
    /\ IF ~ensureSnapshotBuilds(golden)
       THEN /\ goldenUsed' = goldenUsed \cup {[bundle |-> golden, built |-> FALSE]}
            /\ UNCHANGED <<golden, goldenBuilds>>
       ELSE \/ UNCHANGED <<golden, goldenBuilds, goldenUsed>>
            \/ /\ golden' = [golden EXCEPT !.diskOf = BaseRootfsLineageID]
               /\ UNCHANGED <<goldenBuilds, goldenUsed>>
            \/ /\ golden' = [golden EXCEPT !.diskOf = BaseRootfsLineageID,
                                            !.state = FALSE, !.mem = FALSE,
                                            !.snapOf = ""]
               /\ UNCHANGED <<goldenBuilds, goldenUsed>>
            \/ /\ golden' = [golden EXCEPT !.diskOf = BaseRootfsLineageID,
                                            !.state = TRUE, !.mem = TRUE,
                                            !.snapOf = BaseRootfsLineageID]
               /\ goldenBuilds' = goldenBuilds + 1
               /\ goldenUsed' = goldenUsed \cup {[bundle |-> golden', built |-> TRUE]}
    /\ UNCHANGED <<state, inFlightExec, caller, coreVars, snapFS, del, vmPaused,
                   nextSnapshotID, wireVars, poolVars, linkVars, loaderVars, setupVars, buildVars>>

\* =========================================================================
\* agentrpc: framed JSON messages on one connection
\* =========================================================================
\* Bytes are the integers 0..255, Go strings and byte slices sequences of
\* them.  A message is a Request that carries only its Type.

\* The bytes a Type is made of here: a letter, the two bytes a JSON string
\* escapes with a backslash, and 0xFF, which is valid in no UTF-8 encoding.
TypeBytes == {97, 34, 92, 255}
GoStrings == UNION {[1..n -> TypeBytes] : n \in 0..MaxStrLen}
Messages == {[type |-> t] : t \in GoStrings}

\* The bytes of \ufffd, which encoding/json writes for a byte that is not
\* part of a valid UTF-8 encoding.
ReplacementEscape == <<92, 117, 102, 102, 102, 100>>

\* encoding/json, string encoder: the encoding of one byte of TypeBytes.
jsonEncodeByte(b) ==
    IF b = 34 THEN <<92, 34>>
    ELSE IF b = 92 THEN <<92, 92>>
    ELSE IF b < 128 THEN <<b>>
    ELSE ReplacementEscape

RECURSIVE jsonEncodeString(_)
jsonEncodeString(str) ==
    IF str = <<>> THEN <<>>
    ELSE jsonEncodeByte(Head(str)) \o jsonEncodeString(Tail(str))

\* {"type":"  and  "}
TypePrefix == <<123, 34, 116, 121, 112, 101, 34, 58, 34>>
TypeSuffix == <<34, 125>>

\* json.Marshal(Request{Type: t})
jsonMarshal(msg) == TypePrefix \o jsonEncodeString(msg.type) \o TypeSuffix

\* The value of a hexadecimal digit.
HexValue(b) == IF b >= 48 /\ b <= 57 THEN b - 48
               ELSE IF b >= 97 /\ b <= 102 THEN b - 87
               ELSE b - 55

\* The UTF-8 encoding of a code point of the basic plane.
utf8Encode(cp) ==
    IF cp < 128 THEN <<cp>>
    ELSE IF cp < 2048 THEN <<192 + (cp \div 64), 128 + (cp % 64)>>
    ELSE <<224 + (cp \div 4096), 128 + ((cp \div 64) % 64), 128 + (cp % 64)>>

\* encoding/json, string decoder: the Go string of the body of a JSON string.
RECURSIVE jsonDecodeString(_)
jsonDecodeString(body) ==
    IF body = <<>> THEN <<>>
    ELSE IF body[1] # 92
    THEN <<body[1]>> \o jsonDecodeString(Tail(body))
    ELSE IF body[2] = 117
    THEN utf8Encode(HexValue(body[3]) * 4096 + HexValue(body[4]) * 256
                    + HexValue(body[5]) * 16 + HexValue(body[6]))
         \o jsonDecodeString(SubSeq(body, 7, Len(body)))
    ELSE <<body[2]>> \o jsonDecodeString(SubSeq(body, 3, Len(body)))

\* json.Decoder.Decode into a Request, of a payload json.Marshal produced.
jsonUnmarshal(raw) ==
    [type |-> jsonDecodeString(
        SubSeq(raw, Len(TypePrefix) + 1, Len(raw) - Len(TypeSuffix)))]

\* binary.BigEndian.PutUint32
PutUint32(n) == <<(n \div 16777216) % 256, (n \div 65536) % 256,
                 (n \div 256) % 256, n % 256>>

\* binary.BigEndian.Uint32(hdr) is zero or above MaxMessageBytes (which is
\* below 2^24, so any header with a non-zero first byte is).
InvalidLength(hdr) ==
    \/ hdr[1] > 0
    \/ hdr[2] * 65536 + hdr[3] * 256 + hdr[4] = 0
    \/ hdr[2] * 65536 + hdr[3] * 256 + hdr[4] > MaxMessageBytes
\* binary.BigEndian.Uint32 of a header that is not InvalidLength
Uint32(hdr) == hdr[2] * 65536 + hdr[3] * 256 + hdr[4]

\* The connection: the bytes written and not yet read, the messages they
\* were written for, and the outcome of the last WriteMessage or ReadMessage.
NoWire == [stream |-> <<>>, sent |-> <<>>,
           last |-> [op |-> "none", err |-> FALSE, value |-> [type |-> <<>>],
                     wrote |-> [type |-> <<>>], consumed |-> 0]]

\* WriteMessage(w, v)
WriteMessage(v) ==
    /\ Len(wire.sent) < MaxFrames
    /\ LET raw == jsonMarshal(v) IN
       IF Len(raw) > MaxMessageBytes
       THEN wire' = [wire EXCEPT !.last = [NoWire.last EXCEPT !.op = "write",
                                                             !.err = TRUE]]
       ELSE wire' = [stream |-> wire.stream \o PutUint32(Len(raw)) \o raw,
                     sent |-> Append(wire.sent, v),
                     last |-> [NoWire.last EXCEPT !.op = "write", !.wrote = v]]
    /\ UNCHANGED <<state, inFlightExec, caller, coreVars, storeVars, poolVars, linkVars, loaderVars, setupVars, buildVars>>

\* ReadMessage(r, dst) once the bytes of a frame are there (io.ReadFull
\* waits for them).
ReadMessage ==
    /\ Len(wire.stream) >= 4
    /\ LET hdr == SubSeq(wire.stream, 1, 4) IN
       IF InvalidLength(hdr)
       THEN wire' = [wire EXCEPT
                !.stream = SubSeq(wire.stream, 5, Len(wire.stream)),
                !.last = [NoWire.last EXCEPT !.op = "read", !.err = TRUE,
                                             !.consumed = 4]]
       ELSE LET n == Uint32(hdr)
                buf == SubSeq(wire.stream, 5, 4 + n)
            IN wire' = [stream |-> SubSeq(wire.stream, 5 + n, Len(wire.stream)),
                        sent |-> Tail(wire.sent),
                        last |-> [op |-> "read", err |-> FALSE,
                                  value |-> jsonUnmarshal(buf),
                                  wrote |-> Head(wire.sent),
                                  consumed |-> 4 + n]]
    /\ UNCHANGED <<state, inFlightExec, caller, coreVars, storeVars, poolVars, linkVars, loaderVars, setupVars, buildVars>>

NextWire ==
    \/ \E v \in Messages : WriteMessage(v)
    \/ ReadMessage

\* The store as the other specifications hold it fixed.
StoreAtRest ==
    /\ golden = GoldenOf(1, BaseRootfsLineageID)
    /\ goldenBuilds = 0
    /\ goldenUsed = {}
    /\ snapFS = InitSnapFS
    /\ del = NoDel
    /\ vmPaused = [i \in IDs |-> FALSE]
    /\ nextSnapshotID = 0

\* The goroutines of handleCreate that call createSandboxFromSnapshot.
Creators == 1..MaxCreates

\* sp.BaseDisk, sp.StateFile, sp.MemFile
GoldenFiles == {"base", "state", "mem"}

\* No file of the bundle exists and no create has started. A file is absent,
\* partial (it exists and is being written, or a writer gave up on it) or
\* complete.
NoBuild == [files |-> [f \in GoldenFiles |-> "absent"],
            pc |-> [c \in Creators |-> "idle"],
            used |-> [c \in Creators |-> <<>>]]

\* No call of setupSandboxNetnsAndRouting yet; nothing of it on the host.
NoSetup == [host |-> {}, built |-> {}, calls |-> 0,
            last |-> [ns |-> <<>>, subnet |-> 0, failed |-> "none",
                      before |-> {}]]

\* loadSnapshotWithRetry has not been called. Time is counted in ticks of
\* 20 ms, the length of its sleep.
NoLoader == [pc |-> "idle", now |-> 0, deadline |-> 0, log |-> <<>>,
             ret |-> "none"]

ExecCallers == 1..MaxExecs

\* An agent connection: the host's end is closed or not, the requests the
\* agent has not read yet, the responses the host has not read yet, and
\* the calls that wrote a request and have not come back from the read.
NewConn == [closed |-> FALSE, toAgent |-> <<>>, toHost |-> <<>>, inCall |-> {}]

\* An exec handler before its request arrives.
NoCall == [pc |-> "idle", conn |-> 0, attempt |-> 0, sent |-> 0,
           got |-> <<>>, resp |-> 0]

\* No sandbox, no connection.
NoLink == [agent |-> 0, mu |-> 0, conns |-> <<>>,
           call |-> [c \in ExecCallers |-> NoCall],
           started |-> [c \in ExecCallers |-> 0]]

\* newNetnsPool has not run: no pool in this process.
NoPool == [size |-> 0, once |-> FALSE, i |-> 0, all |-> <<>>, held |-> {},
           ret |-> "none", complete |-> FALSE, calls |-> 0, restarts |-> 0,
           rebuilt |-> 0]

NoNetns == [Subnet |-> 0, Pooled |-> FALSE, Name |-> <<"none", 0>>]
NoReq == [kind |-> "none", pc |-> "idle", id |-> 0, found |-> FALSE,
          nc |-> NoNetns, resp |-> 0, err |-> "none",
          overlap |-> FALSE, envFault |-> FALSE, lineage |-> "none",
          rpc |-> <<>>, snap |-> 0, prepFail |-> <<>>]

InitLifecycle ==
    /\ state = [i \in IDs |-> sandboxStateRunning]
    /\ inFlightExec = [i \in IDs |-> 0]
    /\ sbNetns = [i \in IDs |-> NoNetns]
    /\ sbAgent = [i \in IDs |-> "nil"]
    /\ agentMu = [i \in IDs |-> 0]
    /\ nextSandboxID = 0
    /\ nextSubnet = 0
    /\ sandboxes = {}
    /\ poolCh = <<>>
    /\ vmm = [i \in IDs |-> "none"]
    /\ dir = [i \in IDs |-> FALSE]
    /\ netnsUp = {}
    /\ req = [r \in Reqs |-> NoReq]
    /\ onDemandLog = <<>>
    /\ caller = [c \in Callers |-> NoCaller]
    /\ StoreAtRest
    /\ wire = NoWire
    /\ pool = NoPool
    /\ link = NoLink
    /\ loader = NoLoader
    /\ setup = NoSetup
    /\ build = NoBuild

NextLifecycle ==
    \E c \in Callers :
        \/ LcTryStartExec(c)
        \/ LcFinishExec(c)
        \/ LcBeginDestroy(c)
        \/ LcDrainTrue(c)
        \/ LcDrainTimeout(c)
        \/ LcFinishDestroy(c)

SpecLifecycle == InitLifecycle /\ [][NextLifecycle]_vars

\* Every admitted exec goes on to call finishExec, and the poll loop of
\* waitForExecDrain runs again every 10 ms until it returns.
LifecycleFairness ==
    \A c \in Callers : WF_vars(LcFinishExec(c)) /\ WF_vars(LcDrainTrue(c))

SpecLifecycleFair == SpecLifecycle /\ LifecycleFairness

\* =========================================================================
\* Netns slots and the pool (netnsPool, acquireNetns, releaseNetns)
\* =========================================================================

\* netnsPool.Init: the slot built for index i, named "pool-%03d".
PoolSlot(i) == [Subnet |-> i, Pooled |-> TRUE, Name |-> <<"pool", i>>]

\* setupSandboxNetnsAndRouting(id, subnet) on the fallback path: the netns is
\* named after the sandbox ID, everything else after the subnet index.
OnDemandSlot(id, subnet) == [Subnet |-> subnet, Pooled |-> FALSE, Name |-> <<"sb", id>>]

\* The value of server.nextSubnet when the server starts serving.
InitNextSubnet == PoolSize

\* netnsPool.Acquire: a slot can be received before the timer fires.
poolAcquireReady(ch) == ch # <<>>

poolKeepAfterAcquire(ch) == ch
\* netnsPool.Acquire: the channel after the receive.
poolAfterAcquire(ch) == Tail(ch)

poolAfterReleaseTwice(ch, nc) == Append(Append(ch, nc), nc)
\* netnsPool.Release: the channel after the send.
poolAfterRelease(ch, nc) == Append(ch, nc)

acquireNetnsHardFail(ready) == IF ready THEN "pool" ELSE "error"
\* acquireNetns: which way the netns is obtained.
acquireNetnsPath(ready) == IF ready THEN "pool" ELSE "ondemand"

acquireNetnsSubnetStale(n) == n
\* acquireNetns: int(atomic.AddUint32(&s.nextSubnet, 1)), the new value.
acquireNetnsSubnet(n) == n + 1

releaseNetnsPoolDrops(ch, nc) == ch
releaseNetnsPoolsAll(ch, nc) == IF nc = NoNetns THEN ch ELSE Append(ch, nc)
\* releaseNetns: the pool channel afterwards.
releaseNetnsPool(ch, nc) ==
    IF nc = NoNetns THEN ch
    ELSE IF nc.Pooled THEN poolAfterRelease(ch, nc) ELSE ch

\* releaseNetns: the existing namespaces afterwards; tdOk is whether
\* cleanupSandboxNetnsAndRouting managed to delete the namespace (its error
\* is discarded).
releaseNetnsUp(up, nc, tdOk) ==
    IF nc = NoNetns \/ nc.Pooled THEN up
    ELSE IF tdOk THEN up \ {nc.Name} ELSE up

\* =========================================================================
\* Requests
\*
\* Each handler is cut into steps at the points where it touches state that
\* other goroutines share (the registry, the ID and subnet counters, the pool
\* channel, sb.agentMu, the VMM process); what lies between two such points
\* is one step.
\* =========================================================================

\* Requests are numbered in the order they arrive.
Arrives(r) ==
    /\ req[r].kind = "none"
    /\ \A q \in 1..(r - 1) : req[q].kind # "none"

Respond(rec, code, why) == [rec EXCEPT !.pc = "done", !.resp = code, !.err = why]

\* handleCreate: allocate the ID; createSandboxFromSnapshot: ensureSnapshot;
\* restoreSandboxFromArtifacts: create the jail directory.  "snapshot" stands
\* for an error of either (neither leaves anything behind).
CreateStart(r) ==
    /\ Arrives(r)
    /\ LET id == nextSandboxID + 1 IN
        /\ nextSandboxID' = id
        /\ \E pre \in {"ok", "snapshot"} :
            /\ dir' = [dir EXCEPT ![id] = (pre = "ok")]
            /\ req' = [req EXCEPT ![r] =
                  IF pre = "ok"
                  THEN [NoReq EXCEPT !.kind = "create", !.pc = "acquire", !.id = id]
                  ELSE Respond([NoReq EXCEPT !.kind = "create", !.id = id],
                               StatusInternalServerError, pre)]
    /\ UNCHANGED <<state, inFlightExec, sbNetns, sbAgent, agentMu, nextSubnet,
                   sandboxes, poolCh, vmm, netnsUp, onDemandLog, caller, storeVars,
                   wireVars, poolVars, linkVars, loaderVars, setupVars, buildVars>>

restoreLineageOnlyMissing(current, meta) == current # "" /\ meta = ""
restoreLineageBothSet(current, meta) == current # "" /\ meta # "" /\ meta # current
\* handleSnapshotRestore: the lineage test on the snapshot's meta.
restoreLineageConflict(current, meta) ==
    current # "" /\ (meta = "" \/ meta # current)

\* handleSnapshotRestore: validate, load the meta, test the lineage, allocate
\* the ID; createSandboxFromUserSnapshot: check the artifacts;
\* restoreSandboxFromArtifacts: create the jail directory.  The request
\* keeps the lineage_id of the meta it loaded.
RestoreStart(r) ==
    /\ Arrives(r)
    /\ \E pre \in {"ok", "badid", "nometa", "artifact"}, metaLineage \in Lineages :
        LET id == nextSandboxID + 1
            early == [NoReq EXCEPT !.kind = "restore"]
            base == [early EXCEPT !.lineage = metaLineage] IN
        IF pre = "badid"
        THEN /\ req' = [req EXCEPT ![r] = Respond(early, StatusBadRequest, pre)]
             /\ UNCHANGED <<nextSandboxID, dir>>
        ELSE IF pre = "nometa"
        THEN /\ req' = [req EXCEPT ![r] = Respond(early, StatusNotFound, pre)]
             /\ UNCHANGED <<nextSandboxID, dir>>
        ELSE IF restoreLineageConflict(BaseRootfsLineageID, metaLineage)
        THEN /\ req' = [req EXCEPT ![r] = Respond(base, StatusConflict, "lineage")]
             /\ UNCHANGED <<nextSandboxID, dir>>
        ELSE /\ nextSandboxID' = id
             /\ dir' = [dir EXCEPT ![id] = (pre = "ok")]
             /\ req' = [req EXCEPT ![r] =
                   IF pre = "ok"
                   THEN [base EXCEPT !.pc = "acquire", !.id = id]
                   ELSE Respond([base EXCEPT !.id = id],
                                StatusInternalServerError, pre)]
    /\ UNCHANGED <<state, inFlightExec, sbNetns, sbAgent, agentMu, nextSubnet,
                   sandboxes, poolCh, vmm, netnsUp, onDemandLog, caller, storeVars,
                   wireVars, poolVars, linkVars, loaderVars, setupVars, buildVars>>

InBringUp(r) == req[r].kind \in {"create", "restore"} /\ req[r].pc # "done"

\* The netns goroutine of restoreSandboxFromArtifacts: acquireNetns(id).
PrepAcquire(r) ==
    /\ InBringUp(r) /\ req[r].pc = "acquire"
    /\ LET path == acquireNetnsPath(poolAcquireReady(poolCh)) IN
        \/ /\ path = "pool"
           /\ req' = [req EXCEPT ![r].nc = Head(poolCh), ![r].pc = "pipeline"]
           /\ poolCh' = poolAfterAcquire(poolCh)
           /\ UNCHANGED <<nextSubnet, netnsUp, onDemandLog>>
        \/ /\ path = "ondemand"
           /\ LET subnet == acquireNetnsSubnet(nextSubnet)
                  slot == OnDemandSlot(req[r].id, subnet) IN
               /\ nextSubnet' = subnet
               /\ onDemandLog' = Append(onDemandLog, subnet)
               /\ \E out \in {"ok", "clean", "leak"} :
                   /\ netnsUp' = IF out = "clean" THEN netnsUp
                                 ELSE netnsUp \cup {slot.Name}
                   /\ req' = [req EXCEPT
                         ![r].nc = IF out = "ok" THEN slot ELSE NoNetns,
                         ![r].err = IF out = "ok" THEN "none" ELSE "netns",
                         ![r].pc = "pipeline"]
           /\ UNCHANGED poolCh
        \/ /\ path = "error"
           /\ req' = [req EXCEPT ![r].err = "pool", ![r].pc = "pipeline"]
           /\ UNCHANGED <<nextSubnet, netnsUp, onDemandLog, poolCh>>
    /\ UNCHANGED <<state, inFlightExec, sbNetns, sbAgent, agentMu,
                   nextSandboxID, sandboxes, vmm, dir, caller, storeVars,
                   wireVars, poolVars, linkVars, loaderVars, setupVars, buildVars>>

\* The points where a run of the pipeline can stop after the two goroutines
\* were started, in order; points with the same cleanup code are one:
\*   "clone"     materializeSandboxRootfs failed
\*   "start"     the log file could not be opened or the VMM not started
\*   "ready"     the API socket, the snapshot load or the agent did not get
\*               ready in time
\*   "guestnet"  the net RPC failed (the agent connection is closed first)
\*   "ok"        the run passes them all
PipelineSteps == <<"clone", "start", "ready", "guestnet", "ok">>
StepNo(x) == CHOOSE k \in 1..Len(PipelineSteps) : PipelineSteps[k] = x

\* restoreSandboxFromArtifacts: the VMM has been started before this step
\* fails (or the run passes).
VmmSpawnedBefore(x) == StepNo(x) > StepNo("start")

pipelineErrorNetnsFirst(x, nerr) ==
    IF nerr # "none" THEN nerr
    ELSE IF x = "ok" THEN "none" ELSE x
\* restoreSandboxFromArtifacts: the error returned when the run stops at
\* step x and the netns goroutine reported nerr: after the join the clone
\* error goes first, then the netns error.
pipelineError(x, nerr) ==
    IF x = "clone" THEN "clone"
    ELSE IF nerr # "none" THEN nerr
    ELSE IF x = "ok" THEN "none" ELSE x

pipelineVmmLeftRunning(spawned) == IF spawned THEN "alive" ELSE "none"
\* restoreSandboxFromArtifacts: the VMM when the run returns an error: never
\* started, or started and sent SIGKILL by killProcessGroup (its exit is not
\* waited for).
pipelineVmmAfterFailure(spawned) == IF spawned THEN "killed" ELSE "none"

\* The two goroutines share nothing, so when both fail either may have
\* failed first: the failures of a run that stops at step x, in the order
\* they happened.
PrepFailures(x, nerr) ==
    IF x = "clone" /\ nerr # "none" THEN {<<"clone", "netns">>, <<"netns", "clone">>}
    ELSE IF x = "clone" THEN {<<"clone">>}
    ELSE IF nerr # "none" THEN {<<"netns">>}
    ELSE {<<>>}

\* restoreSandboxFromArtifacts: what a run that stops at step x does before
\* it returns, in order: the calls of the failing branch, then the deferred
\* functions, last registered first (the netns release, registered after the
\* join, then the removal of the jail directory).  A run that fails at the
\* join (clone error or netns error nerr) releases the netns nc if it got
\* one; a failed start closes the log file if it was opened.
pipelineCleanup(x, nerr, nc) ==
    IF x = "clone" \/ nerr # "none"
    THEN (IF nc # NoNetns THEN <<"releasenetns">> ELSE <<>>) \o <<"removedir">>
    ELSE (IF x = "guestnet" THEN <<"closeagent">> ELSE <<>>)
         \o (IF VmmSpawnedBefore(x) THEN <<"kill", "killcgroup">> ELSE <<>>)
         \o <<"closelog", "releasenetns", "removedir">>

handleCreateRegistersAlways(why) == TRUE
\* handleCreate, handleSnapshotRestore: the record is put in the registry
\* only when the pipeline returned no error.
handleCreateRegisters(why) == why = "none"

\* restoreSandboxFromArtifacts from the join of the two goroutines to its
\* return, and the handler's answer.  On a failure after the VMM was started
\* its process group gets SIGKILL; the deferred functions release the netns
\* and remove the jail directory (both errors discarded).  On success the
\* sandbox record is built and the handler registers it under s.mu.
\* envFault records that a cleanup call (deleting the netns, removing the
\* directory) itself failed.
Pipeline(r) ==
    /\ InBringUp(r) /\ req[r].pc = "pipeline"
    /\ LET id == req[r].id
           nc == req[r].nc IN
       \E x \in {PipelineSteps[k] : k \in 1..Len(PipelineSteps)},
          tdOk \in BOOLEAN, rmOk \in BOOLEAN :
        \E failed \in PrepFailures(x, req[r].err) :
        LET why == pipelineError(x, req[r].err) IN
        \* a netns error ends the run at the join
        /\ req[r].err # "none" => x \in {"clone", "start"}
        /\ IF why = "none"
           THEN /\ tdOk /\ rmOk
                /\ vmm' = [vmm EXCEPT ![id] = "alive"]
                /\ sbNetns' = [sbNetns EXCEPT ![id] = nc]
                /\ sbAgent' = [sbAgent EXCEPT ![id] = "open"]
                /\ state' = [state EXCEPT ![id] = sandboxStateRunning]
                /\ UNCHANGED <<poolCh, netnsUp, dir>>
           ELSE /\ (nc = NoNetns \/ nc.Pooled) => tdOk
                /\ vmm' = [vmm EXCEPT ![id] =
                              pipelineVmmAfterFailure(VmmSpawnedBefore(x))]
                /\ poolCh' = releaseNetnsPool(poolCh, nc)
                /\ netnsUp' = releaseNetnsUp(netnsUp, nc, tdOk)
                /\ dir' = [dir EXCEPT ![id] = ~rmOk]
                /\ UNCHANGED <<sbNetns, sbAgent, state>>
        /\ sandboxes' = IF handleCreateRegisters(why)
                        THEN sandboxes \cup {id} ELSE sandboxes
        /\ req' = [req EXCEPT ![r] =
              [Respond(@, IF why = "none" THEN StatusOK
                          ELSE StatusInternalServerError, why)
                  EXCEPT !.nc = NoNetns, !.envFault = ~(tdOk /\ rmOk),
                         !.prepFail = failed,
                         !.rpc = IF why = "none" THEN <<>>
                                 ELSE pipelineCleanup(x, req[r].err, nc)]]
    /\ UNCHANGED <<inFlightExec, agentMu, nextSandboxID, nextSubnet,
                   onDemandLog, caller, storeVars,
                   wireVars, poolVars, linkVars, loaderVars, setupVars, buildVars>>

\* A VMM that received SIGKILL exits.
VmmExit(i) ==
    /\ vmm[i] = "killed"
    /\ vmm' = [vmm EXCEPT ![i] = "exited"]
    /\ UNCHANGED <<state, inFlightExec, sbNetns, sbAgent, agentMu,
                   nextSandboxID, nextSubnet, sandboxes, poolCh, dir, netnsUp,
                   req, onDemandLog, caller, storeVars,
                   wireVars, poolVars, linkVars, loaderVars, setupVars, buildVars>>

\* IDs that have been handed out; requests name one of them.
Allocated == 1..nextSandboxID

\* The guest agent answers on the sandbox's vsock while the VMM runs.
VmmServes(i) == vmm[i] = "alive"

\* The guest agent accepts a dial and answers a call: the VMM runs and the
\* guest is not paused.
AgentAnswers(i) == VmmServes(i) /\ ~vmPaused[i]

\* handleExec up to the agent transport: decode, look the sandbox up under
\* s.mu, validate cmd/argv.
ExecStart(r) ==
    /\ Arrives(r)
    /\ \E id \in Allocated, body \in {"ok", "badjson", "badcmd"} :
        LET base == [NoReq EXCEPT !.kind = "exec", !.id = id] IN
        req' = [req EXCEPT ![r] =
            IF body = "badjson" THEN Respond(base, StatusBadRequest, "badreq")
            ELSE IF id \notin sandboxes THEN Respond(base, StatusNotFound, "notfound")
            ELSE IF body = "badcmd" THEN Respond(base, StatusBadRequest, "badreq")
            ELSE [base EXCEPT !.found = TRUE, !.pc = "lock"]]
    /\ UNCHANGED <<state, inFlightExec, sbNetns, sbAgent, agentMu,
                   nextSandboxID, nextSubnet, sandboxes, poolCh, vmm, dir,
                   netnsUp, onDemandLog, caller, storeVars,
                   wireVars, poolVars, linkVars, loaderVars, setupVars, buildVars>>

\* handleExec: sb.agentMu.Lock(); ac := sb.Agent; dialAgent if it is nil.  A
\* failed dial answers 500 and the deferred unlock releases agentMu.
ExecLock(r) ==
    /\ req[r].kind = "exec" /\ req[r].pc = "lock"
    /\ LET id == req[r].id IN
        /\ agentMu[id] = 0
        /\ \E ok \in BOOLEAN :
            /\ ok => (sbAgent[id] = "open" \/ AgentAnswers(id))
            /\ ~ok => sbAgent[id] = "nil"
            /\ sbAgent' = [sbAgent EXCEPT ![id] = IF ok THEN "open" ELSE @]
            /\ agentMu' = [agentMu EXCEPT ![id] = IF ok THEN r ELSE 0]
            /\ req' = [req EXCEPT ![r] =
                  IF ok THEN [@ EXCEPT !.pc = "call"]
                  ELSE [Respond(@, StatusInternalServerError, "dial")
                           EXCEPT !.envFault = VmmServes(id)]]
    /\ UNCHANGED <<state, inFlightExec, sbNetns, nextSandboxID, nextSubnet,
                   sandboxes, poolCh, vmm, dir, netnsUp, onDemandLog, caller, storeVars,
                   wireVars, poolVars, linkVars, loaderVars, setupVars, buildVars>>

\* handleExec: the first ac.Call is followed by close, redial and a second
\* call whenever it returned an error (err != nil), whatever the error.
handleExecRetries(first) == first # "ok"

agentMuKeptByExec(holder) == holder
\* handleExec: the deferred sb.agentMu.Unlock().
agentMuAfterExec(holder) == 0

\* What handleExec can do from the first ac.Call on, as the list of its
\* agent operations and their results.  The first call returns nil ("ok"),
\* fails on the connection ("broken": write or read error) or returns the
\* agent's ok=false reply as an error ("reply").
ExecRuns ==
    {<< <<"call", first>> >> : first \in {f \in {"ok", "broken", "reply"} :
                                            ~handleExecRetries(f)}}
    \cup UNION {{<< <<"call", first>>, <<"redial", "fail">> >>,
                 << <<"call", first>>, <<"redial", "ok">>, <<"call", "ok">> >>,
                 << <<"call", first>>, <<"redial", "ok">>, <<"call", "fail">> >>}
                : first \in {f \in {"ok", "broken", "reply"} :
                                handleExecRetries(f)}}

\* The run needs the agent to answer: a reply arrives or a dial succeeds.
NeedsAgent(run) ==
    \E k \in 1..Len(run) : run[k] \in {<<"call", "ok">>, <<"call", "reply">>,
                                        <<"redial", "ok">>}

\* handleExec: ac.Call; on an error close the connection, redial and call
\* once more; answer, and release agentMu.  The request keeps the list of
\* its agent operations.
ExecCall(r) ==
    /\ req[r].kind = "exec" /\ req[r].pc = "call"
    /\ LET id == req[r].id IN
       \E run \in ExecRuns :
        LET last == run[Len(run)] IN
        /\ NeedsAgent(run) => AgentAnswers(id)
        /\ sbAgent' = [sbAgent EXCEPT ![id] =
                          IF last = <<"redial", "fail">> THEN "nil" ELSE "open"]
        /\ agentMu' = [agentMu EXCEPT ![id] = agentMuAfterExec(@)]
        /\ req' = [req EXCEPT ![r] =
              [Respond(@, IF last = <<"call", "ok">> THEN StatusOK
                          ELSE StatusInternalServerError,
                       IF last = <<"call", "ok">> THEN "none" ELSE "agent")
                  EXCEPT !.envFault = Len(run) > 1 /\ VmmServes(id),
                         !.rpc = run]]
    /\ UNCHANGED <<state, inFlightExec, sbNetns, nextSandboxID, nextSubnet,
                   sandboxes, poolCh, vmm, dir, netnsUp, onDemandLog, caller, storeVars,
                   wireVars, poolVars, linkVars, loaderVars, setupVars, buildVars>>

\* An exec request that found its sandbox and has not been answered yet.
ExecInFlight(q, id) ==
    req[q].kind = "exec" /\ req[q].id = id /\ req[q].found /\ req[q].pc # "done"

registryKeptOnDestroy(reg, id) == reg
\* handleDestroy: delete(s.sandboxes, req.SandboxID) under s.mu.
registryAfterDestroy(reg, id) == reg \ {id}

\* handleDestroy: decode, then take the record out of the registry under s.mu.
DestroyStart(r) ==
    /\ Arrives(r)
    /\ \E id \in Allocated, body \in {"ok", "badjson"} :
        LET base == [NoReq EXCEPT !.kind = "destroy", !.id = id] IN
        IF body = "badjson"
        THEN /\ req' = [req EXCEPT ![r] = Respond(base, StatusBadRequest, "badreq")]
             /\ sandboxes' = sandboxes
        ELSE IF id \notin sandboxes
        THEN /\ req' = [req EXCEPT ![r] = Respond(base, StatusNotFound, "notfound")]
             /\ sandboxes' = sandboxes
        ELSE /\ sandboxes' = registryAfterDestroy(sandboxes, id)
             /\ req' = [q \in Reqs |->
                   IF q = r THEN [base EXCEPT !.found = TRUE, !.pc = "closeagent"]
                   ELSE IF ExecInFlight(q, id) THEN [req[q] EXCEPT !.overlap = TRUE]
                   ELSE req[q]]
    /\ UNCHANGED <<state, inFlightExec, sbNetns, sbAgent, agentMu,
                   nextSandboxID, nextSubnet, poolCh, vmm, dir, netnsUp,
                   onDemandLog, caller, storeVars,
                   wireVars, poolVars, linkVars, loaderVars, setupVars, buildVars>>

\* cleanupSandbox: under sb.agentMu, close the agent connection.
DestroyCloseAgent(r) ==
    /\ req[r].kind = "destroy" /\ req[r].pc = "closeagent"
    /\ agentMu[req[r].id] = 0
    /\ sbAgent' = [sbAgent EXCEPT ![req[r].id] = "nil"]
    /\ req' = [req EXCEPT ![r].pc = "kill"]
    /\ UNCHANGED <<state, inFlightExec, sbNetns, agentMu, nextSandboxID,
                   nextSubnet, sandboxes, poolCh, vmm, dir, netnsUp,
                   onDemandLog, caller, storeVars,
                   wireVars, poolVars, linkVars, loaderVars, setupVars, buildVars>>

cleanupVmmWaitsOnly(exits) == IF exits THEN "exited" ELSE "alive"
\* cleanupSandbox: the VMM after killProcessGroup and the wait of up to 5 s;
\* exits is whether Wait returned before the timer.
cleanupVmmAfterKill(exits) == IF exits THEN "exited" ELSE "killed"

\* cleanupSandbox: kill the cgroup, SIGKILL the VMM's process group and wait
\* for it up to 5 s; a cgroup error or a timed-out wait is added to errs.
DestroyKill(r) ==
    /\ req[r].kind = "destroy" /\ req[r].pc = "kill"
    /\ \E cgOk \in BOOLEAN, exits \in BOOLEAN :
        /\ vmm' = [vmm EXCEPT ![req[r].id] = cleanupVmmAfterKill(exits)]
        /\ req' = [req EXCEPT ![r].pc = "release",
                              ![r].err = IF cgOk /\ exits THEN @ ELSE "errs"]
    /\ UNCHANGED <<state, inFlightExec, sbNetns, sbAgent, agentMu,
                   nextSandboxID, nextSubnet, sandboxes, poolCh, dir, netnsUp,
                   onDemandLog, caller, storeVars,
                   wireVars, poolVars, linkVars, loaderVars, setupVars, buildVars>>

\* cleanupSandbox: an error from removing the jail directory is added to errs.
cleanupRemoveOk(rmOk) == rmOk

\* cleanupSandbox: s.releaseNetns(sb.Netns); sb.Netns = nil; remove the jail
\* directory; return the collected errors.  handleDestroy answers 500 if
\* there are any, else 200.  envFault records that deleting the netns failed
\* (releaseNetns discards that error).
DestroyRelease(r) ==
    /\ req[r].kind = "destroy" /\ req[r].pc = "release"
    /\ LET id == req[r].id IN
       \E tdOk \in BOOLEAN, rmOk \in BOOLEAN :
        /\ (sbNetns[id] = NoNetns \/ sbNetns[id].Pooled) => tdOk
        /\ poolCh' = releaseNetnsPool(poolCh, sbNetns[id])
        /\ netnsUp' = releaseNetnsUp(netnsUp, sbNetns[id], tdOk)
        /\ sbNetns' = [sbNetns EXCEPT ![id] = NoNetns]
        /\ dir' = [dir EXCEPT ![id] = ~rmOk]
        /\ req' = [req EXCEPT ![r] =
              [IF cleanupRemoveOk(rmOk) /\ @.err = "none"
               THEN Respond(@, StatusOK, "none")
               ELSE Respond(@, StatusInternalServerError, "errs")
                  EXCEPT !.nc = sbNetns[id], !.envFault = ~tdOk]]
    /\ UNCHANGED <<state, inFlightExec, sbAgent, agentMu, nextSandboxID,
                   nextSubnet, sandboxes, vmm, onDemandLog, caller, storeVars,
                   wireVars, poolVars, linkVars, loaderVars, setupVars, buildVars>>

\* The server after startup: the pool initialised, nothing registered.
Init ==
    /\ state = [i \in IDs |-> sandboxStateRunning]
    /\ inFlightExec = [i \in IDs |-> 0]
    /\ sbNetns = [i \in IDs |-> NoNetns]
    /\ sbAgent = [i \in IDs |-> "nil"]
    /\ agentMu = [i \in IDs |-> 0]
    /\ nextSandboxID = 0
    /\ nextSubnet = InitNextSubnet
    /\ sandboxes = {}
    /\ poolCh = [i \in 1..PoolSize |-> PoolSlot(i)]
    /\ vmm = [i \in IDs |-> "none"]
    /\ dir = [i \in IDs |-> FALSE]
    /\ netnsUp = {PoolSlot(i).Name : i \in 1..PoolSize}
    /\ req = [r \in Reqs |-> NoReq]
    /\ onDemandLog = <<>>
    /\ caller = [c \in Callers |-> NoCaller]
    /\ StoreAtRest
    /\ wire = NoWire
    /\ pool = NoPool
    /\ link = NoLink
    /\ loader = NoLoader
    /\ setup = NoSetup
    /\ build = NoBuild

Next ==
    \/ \E r \in Reqs :
        \/ CreateStart(r)
        \/ RestoreStart(r)
        \/ PrepAcquire(r)
        \/ Pipeline(r)
        \/ ExecStart(r)
        \/ ExecLock(r)
        \/ ExecCall(r)
        \/ DestroyStart(r)
        \/ DestroyCloseAgent(r)
        \/ DestroyKill(r)
        \/ DestroyRelease(r)
    \/ \E i \in IDs : VmmExit(i)

Spec == Init /\ [][Next]_vars

\* -------------------------------------------------------------------------
\* /snapshot/create
\* -------------------------------------------------------------------------

DigitChars == <<"0", "1", "2", "3", "4", "5", "6", "7", "8", "9">>
\* fmt.Sprintf("%d", n)
RECURSIVE Itoa(_)
Itoa(n) == IF n < 10 THEN <<DigitChars[n + 1]>>
           ELSE Itoa(n \div 10) \o <<DigitChars[(n % 10) + 1]>>

\* fmt.Sprintf("us-%d", n)
userSnapshotID(n) == <<"u", "s", "-">> \o Itoa(n)

\* handleSnapshotCreate: decode, look the sandbox up under s.mu, allocate the
\* snapshot ID.
SnapshotCreateStart(r) ==
    /\ Arrives(r)
    /\ \E id \in IDs, body \in {"ok", "badjson", "noid"} :
        LET base == [NoReq EXCEPT !.kind = "snapshot", !.id = id] IN
        IF body # "ok"
        THEN /\ req' = [req EXCEPT ![r] = Respond(base, StatusBadRequest, "badreq")]
             /\ UNCHANGED nextSnapshotID
        ELSE IF id \notin sandboxes
        THEN /\ req' = [req EXCEPT ![r] = Respond(base, StatusNotFound, "notfound")]
             /\ UNCHANGED nextSnapshotID
        ELSE /\ nextSnapshotID' = nextSnapshotID + 1
             /\ req' = [req EXCEPT ![r] =
                   [base EXCEPT !.found = TRUE, !.pc = "closeagent",
                                !.snap = nextSnapshotID + 1]]
    /\ UNCHANGED <<state, inFlightExec, caller, sbNetns, sbAgent, agentMu,
                   nextSandboxID, nextSubnet, sandboxes, poolCh, vmm, dir,
                   netnsUp, onDemandLog, golden, goldenBuilds,
                   goldenUsed, snapFS, del, vmPaused, wireVars, poolVars, linkVars, loaderVars, setupVars, buildVars>>

\* createUserSnapshotFromSandbox: under sb.agentMu, close the agent
\* connection.
SnapshotCreateCloseAgent(r) ==
    /\ req[r].kind = "snapshot" /\ req[r].pc = "closeagent"
    /\ agentMu[req[r].id] = 0
    /\ sbAgent' = [sbAgent EXCEPT ![req[r].id] = "nil"]
    /\ req' = [req EXCEPT ![r].pc = "pause"]
    /\ UNCHANGED <<state, inFlightExec, sbNetns, agentMu, nextSandboxID,
                   nextSubnet, sandboxes, poolCh, vmm, dir, netnsUp,
                   onDemandLog, caller, storeVars,
                   wireVars, poolVars, linkVars, loaderVars, setupVars, buildVars>>

\* The request's snapshot directory.
SnapshotRoot(r) == userSnapshotRootDir(WorkDir, userSnapshotID(req[r].snap))

\* createUserSnapshotFromSandbox: MkdirAll of the snapshot directory, then
\* fc.pauseVM().  The request keeps the list of its VMM API calls.
SnapshotCreatePause(r) ==
    /\ req[r].kind = "snapshot" /\ req[r].pc = "pause"
    /\ LET id == req[r].id IN
       \/ \* MkdirAll fails
          /\ req' = [req EXCEPT ![r] = Respond(@, StatusInternalServerError, "mkdir")]
          /\ UNCHANGED <<snapFS, vmPaused>>
       \/ \* pauseVM fails
          /\ snapFS' = snapFS \cup {SnapshotRoot(r)}
          /\ req' = [req EXCEPT ![r] =
                [Respond(@, StatusInternalServerError, "pause")
                    EXCEPT !.rpc = << <<"pause", "fail">> >>]]
          /\ UNCHANGED vmPaused
       \/ /\ VmmServes(id)
          /\ snapFS' = snapFS \cup {SnapshotRoot(r)}
          /\ vmPaused' = [vmPaused EXCEPT ![id] = TRUE]
          /\ req' = [req EXCEPT ![r].pc = "persist",
                                ![r].rpc = << <<"pause", "ok">> >>]
    /\ UNCHANGED <<state, inFlightExec, caller, sbNetns, sbAgent, agentMu,
                   nextSandboxID, nextSubnet, sandboxes, poolCh, vmm, dir,
                   netnsUp, onDemandLog, golden, goldenBuilds,
                   goldenUsed, del, nextSnapshotID, wireVars, poolVars, linkVars, loaderVars, setupVars, buildVars>>

deferredResumeSkipped(resumeNeeded) == FALSE
\* createUserSnapshotFromSandbox: the deferred function calls fc.resumeVM()
\* when resumeNeeded is still set.
deferredResumeRuns(resumeNeeded) == resumeNeeded

\* The function returns an error with resumeNeeded set: the deferred resume,
\* whose result is discarded, then the 500.
SnapshotCreateFail(r, calls, why) ==
    LET id == req[r].id IN
    IF deferredResumeRuns(TRUE)
    THEN \E ok \in BOOLEAN :
         /\ ok => VmmServes(id)
         /\ vmPaused' = [vmPaused EXCEPT ![id] = IF ok THEN FALSE ELSE @]
         /\ req' = [req EXCEPT ![r] =
               [Respond(@, StatusInternalServerError, why)
                   EXCEPT !.rpc = calls \o
                       << <<"resume", IF ok THEN "ok" ELSE "fail">> >>]]
    ELSE /\ UNCHANGED vmPaused
         /\ req' = [req EXCEPT ![r] =
               [Respond(@, StatusInternalServerError, why) EXCEPT !.rpc = calls]]

metaAfterResume(root) == {}
\* createUserSnapshotFromSandbox: what writeUserSnapshotMeta has written
\* when the final fc.resumeVM() is called.
metaBeforeResume(root) == {Append(root, <<"meta.json">>)}

\* createUserSnapshotFromSandbox: createFullSnapshot, materializeSandboxRootfs
\* and writeUserSnapshotMeta; the first that fails ends the operation.
SnapshotCreatePersist(r) ==
    /\ req[r].kind = "snapshot" /\ req[r].pc = "persist"
    /\ LET root == SnapshotRoot(r)
           snapFiles == {Append(root, <<"state.snap">>), Append(root, <<"mem.snap">>)}
           diskFile == Append(root, <<"disk.ext4">>)
           cleared == snapFS \ (snapFiles \cup {diskFile})
       IN
       \/ /\ snapFS' = cleared
          /\ SnapshotCreateFail(r, Append(req[r].rpc, <<"snapshot", "fail">>), "snapshot")
       \/ /\ VmmServes(req[r].id) /\ vmPaused[req[r].id]
          /\ \/ /\ snapFS' = cleared \cup snapFiles
                /\ SnapshotCreateFail(r, Append(req[r].rpc, <<"snapshot", "ok">>), "disk")
             \/ /\ snapFS' = cleared \cup snapFiles \cup {diskFile}
                /\ SnapshotCreateFail(r, Append(req[r].rpc, <<"snapshot", "ok">>), "meta")
             \/ /\ snapFS' = cleared \cup snapFiles \cup {diskFile}
                                   \cup metaBeforeResume(root)
                /\ req' = [req EXCEPT ![r].pc = "resume",
                                      ![r].rpc = Append(@, <<"snapshot", "ok">>)]
                /\ UNCHANGED vmPaused
    /\ UNCHANGED <<state, inFlightExec, caller, sbNetns, sbAgent, agentMu,
                   nextSandboxID, nextSubnet, sandboxes, poolCh, vmm, dir,
                   netnsUp, onDemandLog, golden, goldenBuilds,
                   goldenUsed, del, nextSnapshotID, wireVars, poolVars, linkVars, loaderVars, setupVars, buildVars>>

\* createUserSnapshotFromSandbox: the final fc.resumeVM(); when it fails the
\* function returns with resumeNeeded still set.
SnapshotCreateResume(r) ==
    /\ req[r].kind = "snapshot" /\ req[r].pc = "resume"
    /\ \/ /\ VmmServes(req[r].id)
          /\ vmPaused' = [vmPaused EXCEPT ![req[r].id] = FALSE]
          /\ req' = [req EXCEPT ![r] =
                [Respond(@, StatusOK, "none")
                    EXCEPT !.rpc = Append(@, <<"resume", "ok">>)]]
       \/ SnapshotCreateFail(r, Append(req[r].rpc, <<"resume", "fail">>), "resume")
    /\ UNCHANGED <<state, inFlightExec, caller, sbNetns, sbAgent, agentMu,
                   nextSandboxID, nextSubnet, sandboxes, poolCh, vmm, dir,
                   netnsUp, onDemandLog, golden, goldenBuilds,
                   goldenUsed, snapFS, del, nextSnapshotID, wireVars, poolVars, linkVars, loaderVars, setupVars, buildVars>>

\* /snapshot/create and /destroy requests on the sandboxes that exist.
NextSnapshot ==
    \/ \E r \in Reqs :
        \/ SnapshotCreateStart(r)
        \/ SnapshotCreateCloseAgent(r)
        \/ SnapshotCreatePause(r)
        \/ SnapshotCreatePersist(r)
        \/ SnapshotCreateResume(r)
        \/ DestroyStart(r)
        \/ DestroyCloseAgent(r)
        \/ DestroyKill(r)
        \/ DestroyRelease(r)
    \/ \E i \in IDs : VmmExit(i)

\* The server some time after startup: a create has brought up the first
\* sandbox on the first pooled slot, and no request is being served.
InitServing ==
    /\ state = [i \in IDs |-> sandboxStateRunning]
    /\ inFlightExec = [i \in IDs |-> 0]
    /\ sbNetns = [i \in IDs |-> IF i = LcSb THEN PoolSlot(LcSb) ELSE NoNetns]
    /\ sbAgent = [i \in IDs |-> IF i = LcSb THEN "open" ELSE "nil"]
    /\ agentMu = [i \in IDs |-> 0]
    /\ nextSandboxID = LcSb
    /\ nextSubnet = InitNextSubnet
    /\ sandboxes = {LcSb}
    /\ poolCh = [k \in 1..(PoolSize - 1) |-> PoolSlot(k + 1)]
    /\ vmm = [i \in IDs |-> IF i = LcSb THEN "alive" ELSE "none"]
    /\ dir = [i \in IDs |-> i = LcSb]
    /\ netnsUp = {PoolSlot(i).Name : i \in 1..PoolSize}
    /\ req = [r \in Reqs |-> NoReq]
    /\ onDemandLog = <<>>
    /\ caller = [c \in Callers |-> NoCaller]
    /\ StoreAtRest
    /\ wire = NoWire
    /\ pool = NoPool
    /\ link = NoLink
    /\ loader = NoLoader
    /\ setup = NoSetup
    /\ build = NoBuild

\* /exec and /destroy requests on the sandboxes that exist.
NextServing ==
    \/ \E r \in Reqs :
        \/ ExecStart(r)
        \/ ExecLock(r)
        \/ ExecCall(r)
        \/ DestroyStart(r)
        \/ DestroyCloseAgent(r)
        \/ DestroyKill(r)
        \/ DestroyRelease(r)
    \/ \E i \in IDs : VmmExit(i)

SpecServing == InitServing /\ [][NextServing]_vars

\* A handler that can take its next step takes it: every call a handler
\* makes on these paths returns or times out (the agent dial and call have
\* deadlines, the wait for the VMM's exit has a 5 s timer), and sb.agentMu is
\* handed to a waiter once it is free.  Nothing is assumed of the VMM.
ServingFairness ==
    \A r \in Reqs :
        /\ WF_vars(ExecLock(r))
        /\ WF_vars(ExecCall(r))
        /\ WF_vars(DestroyCloseAgent(r))
        /\ WF_vars(DestroyKill(r))
        /\ WF_vars(DestroyRelease(r))

SpecServingFair == SpecServing /\ ServingFairness

SpecSnapshot == InitServing /\ [][NextSnapshot]_vars

\* /exec requests served while /snapshot/create and /destroy requests are.
NextSnapshotExec ==
    \/ NextSnapshot
    \/ \E r \in Reqs :
        \/ ExecStart(r)
        \/ ExecLock(r)
        \/ ExecCall(r)

SpecSnapshotExec == InitServing /\ [][NextSnapshotExec]_vars

\* The files of a complete user snapshot with the given ID.
userSnapshotBundle(snapshotID) ==
    LET root == userSnapshotRootDir(WorkDir, snapshotID) IN
    {root} \cup {Append(root, <<f>>) :
                    f \in {"state.snap", "mem.snap", "disk.ext4", "meta.json"}}

\* The server started again on a work dir in which earlier runs may have
\* left user snapshots: server.nextSnapshotID starts from zero whatever the
\* work dir holds. As in InitServing a create has brought up a sandbox.
InitRestarted ==
    /\ state = [i \in IDs |-> sandboxStateRunning]
    /\ inFlightExec = [i \in IDs |-> 0]
    /\ sbNetns = [i \in IDs |-> IF i = LcSb THEN PoolSlot(LcSb) ELSE NoNetns]
    /\ sbAgent = [i \in IDs |-> IF i = LcSb THEN "open" ELSE "nil"]
    /\ agentMu = [i \in IDs |-> 0]
    /\ nextSandboxID = LcSb
    /\ nextSubnet = InitNextSubnet
    /\ sandboxes = {LcSb}
    /\ poolCh = [k \in 1..(PoolSize - 1) |-> PoolSlot(k + 1)]
    /\ vmm = [i \in IDs |-> IF i = LcSb THEN "alive" ELSE "none"]
    /\ dir = [i \in IDs |-> i = LcSb]
    /\ netnsUp = {PoolSlot(i).Name : i \in 1..PoolSize}
    /\ req = [r \in Reqs |-> NoReq]
    /\ onDemandLog = <<>>
    /\ caller = [c \in Callers |-> NoCaller]
    /\ golden = GoldenOf(1, BaseRootfsLineageID)
    /\ goldenBuilds = 0
    /\ goldenUsed = {}
    /\ \E left \in SUBSET (1..MaxReq) :
          snapFS = InitSnapFS
                     \cup UNION {userSnapshotBundle(userSnapshotID(n)) : n \in left}
    /\ del = NoDel
    /\ vmPaused = [i \in IDs |-> FALSE]
    /\ nextSnapshotID = 0
    /\ wire = NoWire
    /\ pool = NoPool
    /\ link = NoLink
    /\ loader = NoLoader
    /\ setup = NoSetup
    /\ build = NoBuild

SpecSnapshotRestarted == InitRestarted /\ [][NextSnapshot]_vars

\* The snapshot store of a server that starts on a work dir an earlier run may
\* have left a golden bundle in.
InitStore ==
    /\ state = [i \in IDs |-> sandboxStateRunning]
    /\ inFlightExec = [i \in IDs |-> 0]
    /\ sbNetns = [i \in IDs |-> NoNetns]
    /\ sbAgent = [i \in IDs |-> "nil"]
    /\ agentMu = [i \in IDs |-> 0]
    /\ nextSandboxID = 0
    /\ nextSubnet = InitNextSubnet
    /\ sandboxes = {}
    /\ poolCh = [i \in 1..PoolSize |-> PoolSlot(i)]
    /\ vmm = [i \in IDs |-> "none"]
    /\ dir = [i \in IDs |-> FALSE]
    /\ netnsUp = {PoolSlot(i).Name : i \in 1..PoolSize}
    /\ req = [r \in Reqs |-> NoReq]
    /\ onDemandLog = <<>>
    /\ caller = [c \in Callers |-> NoCaller]
    /\ golden \in InitGoldens
    /\ goldenBuilds = 0
    /\ goldenUsed = {}
    /\ snapFS = InitSnapFS
    /\ del = NoDel
    /\ vmPaused = [i \in IDs |-> FALSE]
    /\ nextSnapshotID = 0
    /\ wire = NoWire
    /\ pool = NoPool
    /\ link = NoLink
    /\ loader = NoLoader
    /\ setup = NoSetup
    /\ build = NoBuild

\* Creates calling ensureSnapshot on the work dir as found.
SpecStore == InitStore /\ [][ensureSnapshot]_vars

\* One agentrpc connection.
SpecWire == Init /\ [][NextWire]_vars

\* The server answering /snapshot/delete requests.
SpecDelete == Init /\ [][handleSnapshotDelete]_vars

\* =========================================================================
\* Properties of the lifecycle state machine (checked under SpecLifecycle)
\* =========================================================================

\* Caller c makes its tryStartExec call in this step.
CallsTryStartExec(c) == caller[c].pc = "idle" /\ caller'[c].kind = "exec"
\* Caller c makes its beginDestroy call in this step.
CallsBeginDestroy(c) == caller[c].pc = "idle" /\ caller'[c].kind = "destroy"

\* C2: tryStartExec returns nil and adds exactly one to inFlightExec if and
\* only if the state is Running; in Closing or Closed it returns the
\* "sandbox is closing" error and leaves the counter alone, so no exec is
\* admitted once some beginDestroy has returned true.
C2_TryStartExecOnlyWhenRunning ==
    [][\A c \in Callers : CallsTryStartExec(c) =>
          /\ (caller'[c].ret = "nil") <=> (state[LcSb] = sandboxStateRunning)
          /\ caller'[c].ret = "nil" =>
                inFlightExec'[LcSb] = inFlightExec[LcSb] + 1
          /\ caller'[c].ret # "nil" =>
                caller'[c].ret = "closing" /\ inFlightExec' = inFlightExec
          /\ (\E d \in Callers : caller[d].kind = "destroy" /\ caller[d].ret = "true")
                => caller'[c].ret = "closing"]_vars

\* An exec was admitted before the destroy began and another was rejected
\* after it.
C2_Witness ==
    /\ \E c \in Callers : caller[c].kind = "exec" /\ caller[c].ret = "nil"
    /\ \E c \in Callers : caller[c].kind = "exec" /\ caller[c].ret = "closing"
    /\ \E d \in Callers : caller[d].kind = "destroy" /\ caller[d].ret = "true"

DestroyCallers == {c \in Callers : caller[c].kind = "destroy"}

\* C3: of all the beginDestroy calls made on one sandbox exactly one returns
\* true, the one that moves the state from Running to Closing; every other
\* call returns false and leaves the state as it was.
C3_ExactlyOneBeginDestroyWins ==
    /\ [](DestroyCallers # {} =>
            Cardinality({c \in DestroyCallers : caller[c].ret = "true"}) = 1)
    /\ [][\A c \in Callers : CallsBeginDestroy(c) =>
            IF caller'[c].ret = "true"
            THEN state[LcSb] = sandboxStateRunning
                 /\ state'[LcSb] = sandboxStateClosing
            ELSE caller'[c].ret = "false" /\ state' = state]_vars

\* Three beginDestroy calls were made: one won, two lost, one of them after
\* the sandbox was closed.
C3_Witness ==
    /\ Cardinality({c \in DestroyCallers : caller[c].ret = "false"}) >= 2
    /\ \E c \in DestroyCallers : caller[c].ret = "true"
    /\ state[LcSb] = sandboxStateClosed

\* C4: the lifecycle state only steps from Running to Closing and from
\* Closing to Closed: never backwards, never out of Closed, and never from
\* Running straight to Closed.
C4_StateOnlyAdvances ==
    [][\A i \in IDs : state'[i] # state[i] =>
          \/ state[i] = sandboxStateRunning /\ state'[i] = sandboxStateClosing
          \/ state[i] = sandboxStateClosing /\ state'[i] = sandboxStateClosed]_vars

\* The sandbox was closed and a later beginDestroy found it Closed.
C4_Witness ==
    /\ state[LcSb] = sandboxStateClosed
    /\ \E c \in Callers : caller[c].pc = "closed"
    /\ \E c \in Callers : caller[c].pc = "lost"

\* =========================================================================
\* Properties of the server (checked under Spec)
\* =========================================================================

\* restoreSandboxFromArtifacts: the API socket and the vsock socket live in
\* the sandbox's jail directory <workdir>/sandboxes/<id>.
SocketPath(id) == <<"sandboxes", id, "firecracker.sock">>
VsockPath(id) == <<"sandboxes", id, "vsock.sock">>

\* C1: an exec that was in flight when a destroy of its sandbox was issued
\* (and met no failure of the guest or the transport of its own) is answered
\* with its normal result or with 409, never with another error.
C1_ExecDuringDestroyNormalOrConflict ==
    \A r \in Reqs :
        (req[r].kind = "exec" /\ req[r].pc = "done"
            /\ req[r].overlap /\ ~req[r].envFault)
        => req[r].resp \in {StatusOK, StatusConflict}

\* C5: when a destroy closes the agent connection (the first step of its
\* teardown, before the VMM is killed) beginDestroy has moved the sandbox to
\* Closing and no exec on the sandbox is still in flight.
C5_DestroyBeginsAndDrainsFirst ==
    [][\A r \in Reqs :
          (req[r].kind = "destroy" /\ req[r].pc = "closeagent"
              /\ req'[r].pc = "kill")
          => /\ state[req[r].id] = sandboxStateClosing
             /\ ~\E q \in Reqs : ExecInFlight(q, req[r].id)]_vars

\* The sandboxes that are live: a request is bringing them up, or they are in
\* the registry.
Live == {<<"req", r>> : r \in {q \in Reqs : InBringUp(q)}}
            \cup {<<"sb", i>> : i \in sandboxes}
LiveID(a) == IF a[1] = "req" THEN req[a[2]].id ELSE a[2]
LiveNetns(a) == IF a[1] = "req" THEN req[a[2]].nc ELSE sbNetns[a[2]]

\* Slot nc is in the pool or held by a live sandbox.
InPool(nc) == \E k \in 1..Len(poolCh) : poolCh[k] = nc
HeldLive(nc) == \E a \in Live : LiveNetns(a) = nc

\* C6: when a destroy has answered 200 the sandbox's VMM has exited, its jail
\* directory is gone, and the slot it held is back with the pool (in it, or
\* handed on to a later sandbox) if pooled, and torn down if on-demand.
C6_Destroy200LeavesNothing ==
    \A r \in Reqs :
        (req[r].kind = "destroy" /\ req[r].pc = "done" /\ req[r].resp = StatusOK)
        => /\ vmm[req[r].id] = "exited"
           /\ ~dir[req[r].id]
           /\ req[r].nc # NoNetns
           /\ IF req[r].nc.Pooled
              THEN InPool(req[r].nc) \/ HeldLive(req[r].nc)
              ELSE req[r].nc.Name \notin netnsUp

\* C7: two live sandboxes never have the same ID (hence never the same VMM
\* API socket or vsock path), and the netns slots they hold never have the
\* same subnet index or the same netns name.
C7_LiveSandboxesDisjoint ==
    \A a \in Live, b \in Live :
        a # b =>
            /\ SocketPath(LiveID(a)) # SocketPath(LiveID(b))
            /\ VsockPath(LiveID(a)) # VsockPath(LiveID(b))
            /\ (LiveNetns(a) # NoNetns /\ LiveNetns(b) # NoNetns) =>
                  /\ LiveNetns(a).Subnet # LiveNetns(b).Subnet
                  /\ LiveNetns(a).Name # LiveNetns(b).Name

\* A registered sandbox that holds a pooled slot next to a sandbox in
\* bring-up that holds an on-demand slot.
C7_Witness ==
    /\ \E i \in sandboxes : sbNetns[i] # NoNetns /\ sbNetns[i].Pooled
    /\ \E r \in Reqs : InBringUp(r) /\ req[r].nc # NoNetns /\ ~req[r].nc.Pooled

\* C8: every subnet index the fallback path allocates is above the pooled
\* range 1..PoolSize and differs from every index allocated before it.
C8_OnDemandSubnetsFresh ==
    \A i \in 1..Len(onDemandLog) :
        /\ onDemandLog[i] > PoolSize
        /\ \A j \in 1..(i - 1) : onDemandLog[j] # onDemandLog[i]

\* The fallback path has allocated at least twice.
C8_Witness == Len(onDemandLog) >= 2

\* C9: a create that finds the pool empty takes the on-demand path: it
\* allocates the next subnet index and gets the slot built for it (or the
\* error of building it); it is never failed with the pool's error.
C9_EmptyPoolFallsBack ==
    [][\A r \in Reqs :
          (req[r].pc = "acquire" /\ req'[r].pc # "acquire" /\ poolCh = <<>>)
          => /\ nextSubnet' = nextSubnet + 1
             /\ req'[r].err \in {"none", "netns"}
             /\ req'[r].err = "none" =>
                   /\ req'[r].nc # NoNetns
                   /\ ~req'[r].nc.Pooled
                   /\ req'[r].nc.Subnet = nextSubnet'
             /\ poolCh' = <<>>]_vars

\* Every pooled slot is held by a live sandbox, the pool is empty, and one
\* more create holds a slot built on demand.
C9_Witness ==
    /\ poolCh = <<>>
    /\ \A i \in 1..PoolSize : HeldLive(PoolSlot(i))
    /\ \E r \in Reqs : InBringUp(r) /\ req[r].nc # NoNetns /\ ~req[r].nc.Pooled

\* The request that allocated sandbox ID i.
BroughtUpBy(i) ==
    {r \in Reqs : req[r].kind \in {"create", "restore"} /\ req[r].id = i}

\* C10: an ID is in the registry only if the request that allocated it ran
\* the pipeline to the end without an error (the record is built, its netns
\* held, its VMM running); the ID of a failed create or restore is not in the
\* registry.
C10_RegisteredOnlyAfterBringUp ==
    /\ \A i \in sandboxes :
        /\ \E r \in BroughtUpBy(i) :
              req[r].pc = "done" /\ req[r].err = "none" /\ req[r].resp = StatusOK
        /\ sbNetns[i] # NoNetns
        /\ vmm[i] = "alive"
    /\ \A r \in Reqs :
        (req[r].kind \in {"create", "restore"} /\ req[r].pc = "done"
            /\ req[r].resp # StatusOK /\ req[r].id # 0)
        => req[r].id \notin sandboxes

\* A create failed after its VMM was started, a restore failed at the clone,
\* and another sandbox is registered.
C10_Witness ==
    /\ \E r \in Reqs : req[r].kind = "create" /\ req[r].err = "ready"
                       /\ req[r].resp = StatusInternalServerError
    /\ \E r \in Reqs : req[r].kind = "restore" /\ req[r].err = "clone"
    /\ sandboxes # {}

\* C11: when disk materialization fails the create is answered 500 and
\* registers nothing, no VMM was started, a pooled slot the netns task
\* obtained is back in the pool, and (unless a cleanup call itself failed)
\* an on-demand netns is deleted and the jail directory removed.
C11_CloneFailureLeavesNothing ==
    [][\A r \in Reqs :
          (InBringUp(r) /\ req[r].pc = "pipeline" /\ req'[r].pc = "done"
              /\ req'[r].err = "clone")
          => LET id == req[r].id
                 nc == req[r].nc IN
             /\ req'[r].resp = StatusInternalServerError
             /\ id \notin sandboxes'
             /\ vmm'[id] = "none"
             /\ (nc # NoNetns /\ nc.Pooled) =>
                   \E k \in 1..Len(poolCh') : poolCh'[k] = nc
             /\ ~req'[r].envFault =>
                   /\ ~dir'[id]
                   /\ (nc # NoNetns /\ ~nc.Pooled) => nc.Name \notin netnsUp']_vars

\* One create failed at the clone after taking the pooled slot and another
\* after building a netns on demand; the pool is full again, no on-demand
\* netns and no directory is left.
C11_Witness ==
    /\ Cardinality({r \in Reqs : req[r].pc = "done" /\ req[r].err = "clone"
                                   /\ ~req[r].envFault}) >= 2
    /\ Len(poolCh) = PoolSize
    /\ Len(onDemandLog) >= 1
    /\ netnsUp = {PoolSlot(i).Name : i \in 1..PoolSize}
    /\ \A i \in IDs : ~dir[i] /\ vmm[i] = "none"

C13_LineageMismatchCreatesNothing ==
    [][\A r \in Reqs :
          (req[r].kind = "none" /\ req'[r].kind = "restore"
              /\ req'[r].lineage \notin {"none", BaseRootfsLineageID})
          => /\ req'[r].pc = "done"
             /\ req'[r].resp = StatusConflict
             /\ req'[r].id = 0
             /\ nextSandboxID' = nextSandboxID
             /\ sandboxes' = sandboxes
             /\ UNCHANGED <<dir, vmm, poolCh, netnsUp, nextSubnet>>]_vars

\* A restore of a snapshot of another lineage was refused while a restore of
\* a snapshot of the current lineage brought a sandbox up.
C13_Witness ==
    /\ \E r \in Reqs : req[r].kind = "restore" /\ req[r].lineage = "B"
                       /\ req[r].resp = StatusConflict
    /\ \E r \in Reqs : req[r].kind = "restore"
                       /\ req[r].lineage = BaseRootfsLineageID
                       /\ req[r].id \in sandboxes

\* C14: with a non-empty control-plane lineage, a restore whose meta has an
\* empty lineage_id is answered 409 and never gets a sandbox ID.
C14_EmptyLineageRejected ==
    \A r \in Reqs :
        (req[r].kind = "restore" /\ req[r].lineage = ""
            /\ BaseRootfsLineageID # "")
        => /\ req[r].pc = "done"
           /\ req[r].resp = StatusConflict
           /\ req[r].id = 0

\* A restore with an empty lineage_id was refused and took no ID: the next
\* create got the ID after the last one handed out before.
C14_Witness ==
    \E r \in Reqs :
        /\ req[r].kind = "restore" /\ req[r].lineage = ""
        /\ req[r].resp = StatusConflict
        /\ \E q \in Reqs : q > r /\ req[q].kind = "create"
                             /\ req[q].id = nextSandboxID
        /\ Cardinality({q \in Reqs : req[q].id # 0}) = nextSandboxID

\* =========================================================================
\* Properties of the snapshot store (SpecStore, SpecDelete)
\* =========================================================================

\* C15: a golden bundle whose meta has a version other than 1 or a lineage_id
\* other than the current base rootfs's is never handed to a restore (it is
\* rebuilt first, once): the meta of every bundle a create restored from as
\* it was found, if it has one, says version 1 and the current lineage.
C15_MismatchedGoldenNeverUsed ==
    /\ goldenBuilds <= 1
    /\ \A u \in goldenUsed :
        (~u.built /\ u.bundle.version # 0)
        => (u.bundle.version = 1 /\ u.bundle.lineage = BaseRootfsLineageID)

\* C16: a delete whose snapshot_id does not match the ID pattern ("../a" for
\* one) is answered 400 and removes nothing; whatever a delete removes is a
\* direct child of the user-snapshots directory, or lies below that child.
C16_DeleteStaysInUserSnapshots ==
    [][del' # del =>
          /\ del'.resp = StatusBadRequest => snapFS' = snapFS
          /\ (del'.raw # <<>> /\ ~snapshotIDPatternMatch(TrimSpace(del'.raw)))
                => del'.resp = StatusBadRequest
          /\ del'.raw = <<".", ".", "/", "a">> => del'.resp = StatusBadRequest
          /\ snapFS' # snapFS =>
                /\ del'.resp = StatusOK
                /\ Len(del'.target) = Len(userSnapshotsDir(WorkDir)) + 1
                /\ IsUnder(userSnapshotsDir(WorkDir), del'.target)
                /\ \A q \in snapFS \ snapFS' : IsUnder(del'.target, q)]_vars

\* After a user snapshot was deleted, a delete of "../a" was refused and the
\* directory it points at is still there.
C16_Witness ==
    /\ del.raw = <<".", ".", "/", "a">>
    /\ del.resp = StatusBadRequest
    /\ Append(WorkDir, <<"a">>) \in snapFS
    /\ userSnapshotRootDir(WorkDir, <<"a">>) \notin snapFS

\* =========================================================================
\* Properties of /exec and /destroy on a running sandbox (SpecServing)
\* =========================================================================

\* C17: a destroy that found its sandbox in the registry is eventually
\* answered, whatever execs are in flight and whether or not the VMM exits,
\* and the sandbox is then not in the registry.
C17_DestroyEventuallyReturns ==
    \A r \in Reqs :
        (req[r].kind = "destroy" /\ req[r].found)
            ~> (req[r].pc = "done" /\ req[r].id \notin sandboxes)

\* A destroy was answered although an exec on the sandbox was in flight when
\* it began and the VMM did not exit within the wait.
C17_Witness ==
    \E r \in Reqs :
        /\ req[r].kind = "destroy" /\ req[r].found /\ req[r].pc = "done"
        /\ vmm[req[r].id] = "killed"
        /\ req[r].id \notin sandboxes
        /\ \E q \in Reqs : req[q].kind = "exec" /\ req[q].overlap
                             /\ req[q].id = req[r].id

\* A destroy request whose body decoded.
ValidDestroy(r) == req[r].kind = "destroy" /\ req[r].err # "badreq"

\* C18: of the destroy requests naming one sandbox at most one finds it in
\* the registry (and runs cleanup); every other one is answered 404 and
\* touches nothing.
C18_OneDestroyWins ==
    /\ \A id \in IDs :
          Cardinality({r \in Reqs : ValidDestroy(r) /\ req[r].id = id
                                      /\ req[r].found}) <= 1
    /\ \A r \in Reqs, q \in Reqs :
          (r # q /\ ValidDestroy(r) /\ ValidDestroy(q)
              /\ req[r].id = req[q].id /\ req[r].found)
          => /\ ~req[q].found
             /\ req[q].pc = "done"
             /\ req[q].resp = StatusNotFound

\* While one destroy is still cleaning up, two more destroys naming the
\* same sandbox have been answered 404.
C18_Witness ==
    \E r \in Reqs :
        /\ ValidDestroy(r) /\ req[r].found /\ req[r].pc = "kill"
        /\ Cardinality({q \in Reqs : ValidDestroy(q) /\ req[q].id = req[r].id
                                      /\ req[q].resp = StatusNotFound}) >= 2

\* The number of exec RPCs in a list of agent operations.
CallCount(run) == Cardinality({k \in 1..Len(run) : run[k][1] = "call"})

\* C19: an exec request sends the exec RPC at most twice; it sends it a
\* second time only when the first call failed on a broken connection, after
\* one close-and-redial; when the second call fails too the client gets the
\* error.
C19_RetryOnceOnBrokenConnection ==
    \A r \in Reqs :
        (req[r].kind = "exec" /\ req[r].pc = "done" /\ req[r].rpc # <<>>)
        => LET run == req[r].rpc IN
           /\ CallCount(run) <= 2
           /\ CallCount(run) = 2 =>
                 /\ Len(run) = 3
                 /\ run[1] = <<"call", "broken">>
                 /\ run[2] = <<"redial", "ok">>
           /\ run[Len(run)] # <<"call", "ok">> =>
                 req[r].resp = StatusInternalServerError

\* =========================================================================
\* Properties of /snapshot/create (SpecSnapshot)
\* =========================================================================

\* C20: a user-snapshot creation that paused the VM does not return without
\* having attempted a resume after the pause, whichever step failed.
C20_ResumeAttemptedAfterPause ==
    \A r \in Reqs :
        (req[r].kind = "snapshot" /\ req[r].pc = "done"
            /\ req[r].rpc # <<>> /\ req[r].rpc[1] = <<"pause", "ok">>)
        => \E k \in 2..Len(req[r].rpc) : req[r].rpc[k][1] = "resume"

\* A creation failed in createFullSnapshot after the pause; the resume was
\* attempted, failed, and the VM is left paused.
C20_Witness ==
    \E r \in Reqs :
        /\ req[r].kind = "snapshot" /\ req[r].pc = "done"
        /\ req[r].resp = StatusInternalServerError
        /\ req[r].rpc = << <<"pause", "ok">>, <<"snapshot", "fail">>,
                           <<"resume", "fail">> >>
        /\ vmPaused[req[r].id]

\* =========================================================================
\* Properties of agentrpc framing (SpecWire)
\* =========================================================================

\* C21: a message written and then read from the same stream is read back
\* equal, in order, and the read consumes exactly 4 + L bytes, L the length
\* of its JSON encoding.
C21_FramingRoundTrip ==
    wire.last.op = "read"
    => /\ ~wire.last.err
       /\ wire.last.value = wire.last.wrote
       /\ wire.last.consumed = 4 + Len(jsonMarshal(wire.last.wrote))

\* =========================================================================
\* Further properties of the lifecycle state machine (SpecLifecycle)
\* =========================================================================

\* Some beginDestroy call has returned true.
DestroyBegun == \E d \in Callers : caller[d].kind = "destroy" /\ caller[d].ret = "true"

\* Caller c's waitForExecDrain returns in this step.
DrainReturns(c) == caller[c].pc = "draining" /\ caller'[c].pc = "drained"

\* C22: once beginDestroy has returned true inFlightExec never increases;
\* with every admitted exec calling finishExec, waitForExecDrain returns, and
\* returns true when it polls the counter at zero; it returns false only when
\* its deadline passed at a poll that found the counter above zero.
C22_DrainAfterBeginDestroy ==
    /\ [][DestroyBegun => inFlightExec'[LcSb] <= inFlightExec[LcSb]]_vars
    /\ [][\A c \in Callers : DrainReturns(c) =>
            /\ caller'[c].drain = "true" <=> inFlightExec[LcSb] = 0
            /\ caller'[c].drain = "false" <=> inFlightExec[LcSb] > 0]_vars
    /\ \A c \in Callers :
          (caller[c].pc = "draining") ~> (caller[c].drain \in {"true", "false"})

\* waitForExecDrain returned true after two execs, admitted before the
\* destroy began, had called finishExec, and an exec that came later was
\* rejected.
C22_Witness ==
    /\ \E d \in Callers : caller[d].kind = "destroy" /\ caller[d].drain = "true"
    /\ Cardinality({c \in Callers : caller[c].kind = "exec"
                                      /\ caller[c].pc = "finished"}) >= 2
    /\ \E c \in Callers : caller[c].kind = "exec" /\ caller[c].ret = "closing"

\* The execs admitted by tryStartExec that have not called finishExec.
AdmittedUnfinished == {c \in Callers : caller[c].kind = "exec" /\ caller[c].pc = "admitted"}

\* C23: inFlightExec is the number of execs admitted by tryStartExec that
\* have not yet called finishExec, and is never negative.
C23_CounterCountsAdmitted ==
    /\ inFlightExec[LcSb] = Cardinality(AdmittedUnfinished)
    /\ inFlightExec[LcSb] >= 0

\* Two execs are in flight and a third has finished.
C23_Witness ==
    /\ inFlightExec[LcSb] = 2
    /\ \E c \in Callers : caller[c].kind = "exec" /\ caller[c].pc = "finished"

\* =========================================================================
\* Properties of cleanup (SpecServing, Spec)
\* =========================================================================

\* The destroy requests that have returned a pooled slot to the pool.
ReleasedPooled == {r \in Reqs : req[r].kind = "destroy" /\ req[r].pc = "done"
                                  /\ req[r].found /\ req[r].nc.Pooled}

\* Request r's cleanupSandbox releases the netns in this step.
CleanupReleases(r) ==
    req[r].kind = "destroy" /\ req[r].pc = "release" /\ req'[r].pc = "done"

Pos(calls, op) ==
    IF \E k \in 1..Len(calls) : calls[k] = op
    THEN CHOOSE k \in 1..Len(calls) : calls[k] = op
    ELSE 0

\* The order the cleanup after a failed bring-up is to run in.
CleanupOrder == <<"closeagent", "kill", "wait", "killcgroup", "releasenetns",
                  "closelog", "removedir">>

\* The bring-up requests that failed after their VMM was spawned.
FailedAfterSpawn == {r \in Reqs : req[r].kind \in {"create", "restore"}
                                    /\ req[r].pc = "done"
                                    /\ req[r].err \in {"ready", "guestnet"}}

\* C25: after a bring-up failure past the VMM's spawn the cleanup closes the
\* agent connection (if one is open), kills the VMM's process group and waits
\* for it, kills the resource group, releases the netns slot, closes the log
\* file and removes the jail directory, in this order.
C25_CleanupOrder ==
    \A r \in FailedAfterSpawn :
        /\ \A k \in 2..Len(CleanupOrder) : Pos(req[r].rpc, CleanupOrder[k]) > 0
        /\ \A j \in 1..Len(CleanupOrder), k \in 1..Len(CleanupOrder) :
              (j < k /\ Pos(req[r].rpc, CleanupOrder[j]) > 0)
              => Pos(req[r].rpc, CleanupOrder[j]) < Pos(req[r].rpc, CleanupOrder[k])

\* =========================================================================
\* Properties of the parallel preparation (Spec)
\* =========================================================================

\* The bring-up requests whose preparation failed.
PrepFailed == {r \in Reqs : req[r].kind \in {"create", "restore"}
                              /\ req[r].pc = "done" /\ req[r].prepFail # <<>>}

\* The error create returns for a failure of the named task.
IsErrorOf(why, task) ==
    IF task = "clone" THEN why = "clone" ELSE why \in {"netns", "pool"}

\* C26 as stated: when the parallel preparation fails, create returns the
\* error of the task that failed first in time.
C26_FirstFailureInTimeReturned ==
    \A r \in PrepFailed : IsErrorOf(req[r].err, req[r].prepFail[1])

\* C26 amended: when the parallel preparation fails, create returns the
\* error of the disk materialization if that failed, whenever it failed, and
\* otherwise the error of the netns acquisition.
C26_CloneErrorReturnedFirst ==
    \A r \in PrepFailed :
        IF \E k \in 1..Len(req[r].prepFail) : req[r].prepFail[k] = "clone"
        THEN IsErrorOf(req[r].err, "clone")
        ELSE IsErrorOf(req[r].err, "netns")

\* Both tasks failed, the netns acquisition first, and create answered with
\* the clone error.
C26_Witness ==
    \E r \in PrepFailed :
        /\ req[r].prepFail = <<"netns", "clone">>
        /\ req[r].err = "clone"
        /\ req[r].resp = StatusInternalServerError

\* =========================================================================
\* Properties of releaseNetns (Spec)
\* =========================================================================

\* Request r's failed bring-up releases its netns in this step.
BringUpReleases(r) ==
    /\ req[r].kind \in {"create", "restore"} /\ req[r].pc = "pipeline"
    /\ req'[r].pc = "done" /\ req'[r].err # "none"

\* Releasing nc in this step does what releaseNetns is to do; failed is
\* whether the teardown call itself failed.
ReleasedRight(nc, failed) ==
    IF nc.Pooled
    THEN poolCh' = Append(poolCh, nc) /\ nc.Name \in netnsUp'
    ELSE poolCh' = poolCh /\ (~failed => nc.Name \notin netnsUp')

\* C27: releasing a slot flagged pooled puts that slot back on the pool and
\* leaves its namespace up; releasing a slot not flagged pooled tears its
\* namespace down and leaves the pool alone, so the pool only ever holds
\* slots flagged pooled.
C27_ReleaseByPooledFlag ==
    /\ [][\A r \in Reqs :
            /\ (BringUpReleases(r) /\ req[r].nc # NoNetns)
                  => ReleasedRight(req[r].nc, req'[r].envFault)
            /\ (CleanupReleases(r) /\ sbNetns[req[r].id] # NoNetns)
                  => ReleasedRight(sbNetns[req[r].id], req'[r].envFault)]_vars
    /\ [](\A k \in 1..Len(poolCh) : poolCh[k].Pooled)

\* A destroy released a slot set up on demand: its namespace is gone and
\* the pool, whose slot another sandbox holds, is still empty.
C27_Witness ==
    \E r \in Reqs :
        /\ req[r].kind = "destroy" /\ req[r].pc = "done" /\ req[r].found
        /\ req[r].nc # NoNetns /\ ~req[r].nc.Pooled
        /\ req[r].nc.Name \notin netnsUp
        /\ poolCh = <<>>

\* =========================================================================
\* netnsPool.Init across calls and restarts (SpecPool)
\* =========================================================================

notPoolVars == <<state, inFlightExec, sbNetns, sbAgent, agentMu,
                 nextSandboxID, nextSubnet, sandboxes, vmm, dir, req,
                 onDemandLog, caller, storeVars, wireVars, linkVars, loaderVars, setupVars, buildVars>>

onceRunsAlways(done) == TRUE
\* sync.Once.Do: the function runs only if no earlier Do has returned.
onceRuns(done) == ~done

\* A call of netnsPool.Init. What p.once has already run is not run again,
\* and initErr, a local of the call, is then returned as declared: nil.
PoolInitCall ==
    /\ pool.size > 0 /\ pool.i = 0 /\ pool.calls < MaxInitCalls
    /\ pool' = IF onceRuns(pool.once)
               THEN [pool EXCEPT !.i = 1, !.ret = "running",
                                 !.calls = pool.calls + 1]
               ELSE [pool EXCEPT !.ret = "nil", !.calls = pool.calls + 1]
    /\ UNCHANGED <<poolCh, netnsUp, notPoolVars>>

\* One round of the loop of netnsPool.Init, for index pool.i: the names a
\* crashed run may have left are torn down (best effort, the error is
\* dropped), then the slot is set up, flagged pooled, appended to p.all and
\* sent on p.ch. netns.NewNamed fails on a name that still exists; a failed
\* setup ends Init with an error and may leave the name behind. The last
\* round returns nil.
PoolInitEntry ==
    /\ pool.i \in 1..pool.size
    /\ Len(poolCh) < pool.size
    /\ LET i == pool.i
           nc == PoolSlot(i)
           left == nc.Name \in netnsUp
       IN \E cleaned \in (IF left THEN BOOLEAN ELSE {TRUE}),
             out \in {"ok", "clean", "leak"} :
            LET up == IF cleaned THEN netnsUp \ {nc.Name} ELSE netnsUp IN
            IF nc.Name \notin up /\ out = "ok"
            THEN /\ netnsUp' = up \cup {nc.Name}
                 /\ poolCh' = Append(poolCh, nc)
                 /\ pool' = [pool EXCEPT
                       !.all = Append(pool.all, nc),
                       !.i = IF i = pool.size THEN 0 ELSE i + 1,
                       !.once = (i = pool.size),
                       !.ret = IF i = pool.size THEN "nil" ELSE "running",
                       !.complete = (i = pool.size),
                       !.rebuilt = pool.rebuilt + (IF left THEN 1 ELSE 0)]
            ELSE /\ netnsUp' = IF out = "leak" THEN up \cup {nc.Name} ELSE up
                 /\ poolCh' = poolCh
                 /\ pool' = [pool EXCEPT !.i = 0, !.once = TRUE,
                                         !.ret = "err"]
    /\ UNCHANGED notPoolVars

\* netnsPool.Acquire by a bring-up, once Init has returned.
PoolAcquire ==
    /\ pool.i = 0 /\ poolAcquireReady(poolCh)
    /\ pool' = [pool EXCEPT !.held = pool.held \cup {Head(poolCh)}]
    /\ poolCh' = poolAfterAcquire(poolCh)
    /\ UNCHANGED <<netnsUp, notPoolVars>>

\* releaseNetns of a slot a sandbox held.
PoolRelease ==
    /\ \E nc \in pool.held :
        /\ poolCh' = releaseNetnsPool(poolCh, nc)
        /\ pool' = [pool EXCEPT !.held = pool.held \ {nc}]
    /\ UNCHANGED <<netnsUp, notPoolVars>>

\* The server process ends (a crash included) and a new one starts:
\* newNetnsPool builds an empty pool of the configured size; the namespaces
\* on the host stay as they were.
PoolRestart ==
    /\ pool.restarts < MaxRestarts
    /\ \E n \in 1..MaxPoolSlots :
        pool' = [NoPool EXCEPT !.size = n, !.restarts = pool.restarts + 1]
    /\ poolCh' = <<>>
    /\ UNCHANGED <<netnsUp, notPoolVars>>

\* A fresh host: no namespace exists, newNetnsPool has built the pool.
InitPool ==
    /\ state = [i \in IDs |-> sandboxStateRunning]
    /\ inFlightExec = [i \in IDs |-> 0]
    /\ sbNetns = [i \in IDs |-> NoNetns]
    /\ sbAgent = [i \in IDs |-> "nil"]
    /\ agentMu = [i \in IDs |-> 0]
    /\ nextSandboxID = 0
    /\ nextSubnet = 0
    /\ sandboxes = {}
    /\ poolCh = <<>>
    /\ vmm = [i \in IDs |-> "none"]
    /\ dir = [i \in IDs |-> FALSE]
    /\ netnsUp = {}
    /\ req = [r \in Reqs |-> NoReq]
    /\ onDemandLog = <<>>
    /\ caller = [c \in Callers |-> NoCaller]
    /\ StoreAtRest
    /\ wire = NoWire
    /\ \E n \in 1..MaxPoolSlots : pool = [NoPool EXCEPT !.size = n]
    /\ link = NoLink
    /\ loader = NoLoader
    /\ setup = NoSetup
    /\ build = NoBuild

NextPool ==
    \/ PoolInitCall
    \/ PoolInitEntry
    \/ PoolAcquire
    \/ PoolRelease
    \/ PoolRestart

SpecPool == InitPool /\ [][NextPool]_vars

\* =========================================================================
\* Properties of netnsPool.Init (SpecPool)
\* =========================================================================

\* The slots Init is to build for a pool of n.
PoolSlots(n) == {PoolSlot(i) : i \in 1..n}

\* C28: once Init has run to its end in this process, a first run on a fresh
\* host or a run over the names a crashed process left, the pool owns
\* exactly one slot per subnet index 1..N, each flagged pooled and with its
\* namespace up, and holds every slot no sandbox has acquired; a further
\* call of Init in the same process changes nothing, so no slot is there
\* twice.
C28_InitIdempotent ==
    pool.complete =>
        /\ pool.all = [i \in 1..pool.size |-> PoolSlot(i)]
        /\ \A k \in 1..Len(pool.all) : pool.all[k].Pooled
        /\ Len(poolCh) + Cardinality(pool.held) = pool.size
        /\ {poolCh[k] : k \in 1..Len(poolCh)} \cup pool.held
              = PoolSlots(pool.size)
        /\ \A nc \in PoolSlots(pool.size) : nc.Name \in netnsUp

\* After a restart Init tore down and rebuilt every slot the earlier
\* process had left, was then called a second time, and the pool of two
\* holds its two slots.
C28_Witness ==
    /\ pool.complete /\ pool.restarts = 1 /\ pool.size = MaxPoolSlots
    /\ pool.rebuilt = pool.size
    /\ pool.calls = MaxInitCalls /\ pool.ret = "nil" /\ pool.i = 0
    /\ Len(poolCh) = pool.size

\* =========================================================================
\* Order of the steps of a user snapshot (SpecSnapshot)
\* =========================================================================

MetaFile(r) == Append(SnapshotRoot(r), <<"meta.json">>)

\* Request r's snapshot writes its meta file in this step.
MetaWrittenBy(r) ==
    /\ req[r].kind = "snapshot" /\ req[r].pc # "done"
    /\ MetaFile(r) \notin snapFS /\ MetaFile(r) \in snapFS'

Resumed(r) == \E k \in 1..Len(req[r].rpc) : req[r].rpc[k] = <<"resume", "ok">>

\* C29 as stated: the meta file of a user snapshot is written only after
\* the VM has been resumed.
C29_MetaAfterResume ==
    [][\A r \in Reqs : MetaWrittenBy(r) => Resumed(r)]_vars

\* C29: a user snapshot pauses the VM, creates the full snapshot,
\* materializes the disk and writes the meta file while the VM is paused,
\* and resumes the VM last: the final resume is called only after the meta
\* file has been written, and a create answered 200 made exactly the calls
\* pause, create snapshot, resume.
C29_ResumeAfterMeta ==
    [][\A r \in Reqs :
        /\ MetaWrittenBy(r) =>
              /\ vmPaused[req[r].id] /\ ~Resumed(r)
              /\ {Append(SnapshotRoot(r), <<f>>) :
                     f \in {"state.snap", "mem.snap", "disk.ext4"}}
                    \subseteq snapFS'
        /\ (req[r].kind = "snapshot" /\ req[r].pc = "resume")
              => MetaFile(r) \in snapFS
        /\ (req[r].kind = "snapshot" /\ req[r].pc # "done"
              /\ req'[r].pc = "done" /\ req'[r].resp = StatusOK)
              => /\ MetaFile(r) \in snapFS
                 /\ req'[r].rpc = <<(<<"pause", "ok">>), (<<"snapshot", "ok">>),
                                    (<<"resume", "ok">>)>>]_vars

\* A user snapshot was answered 200: its meta file is there and the VM runs
\* again.
C29_Witness ==
    \E r \in Reqs :
        /\ req[r].kind = "snapshot" /\ req[r].pc = "done"
        /\ req[r].resp = StatusOK
        /\ MetaFile(r) \in snapFS
        /\ Resumed(r) /\ ~vmPaused[req[r].id]

\* =========================================================================
\* The agent connection during a user snapshot (SpecSnapshotExec)
\* =========================================================================

\* Request r's snapshot has paused the VM and not yet written its files.
SnapshotTaking(r) ==
    /\ req[r].kind = "snapshot" /\ req[r].pc = "persist"
    /\ vmPaused[req[r].id]

\* C30: from the pause of the VM for a user snapshot until the snapshot
\* files are written the sandbox has no open host-to-agent connection,
\* whatever exec requests on the same sandbox run at the same time.
C30_NoAgentConnDuringSnapshot ==
    \A r \in Reqs : SnapshotTaking(r) => sbAgent[req[r].id] = "nil"

\* =========================================================================
\* Exec calls over the agent connections of one sandbox (SpecLink)
\* =========================================================================

notLinkVars == <<state, inFlightExec, caller, coreVars, storeVars, wireVars,
                 poolVars, loaderVars, setupVars, buildVars>>

\* dialAgent succeeded: a new connection, which the guest agent serves in a
\* goroutine of its own.
LinkDialed(l) == [l EXCEPT !.conns = Append(@, NewConn),
                           !.agent = Len(l.conns) + 1]

\* handleExec answers: the deferred sb.agentMu.Unlock() runs.
LinkAnswer(l, c, status) ==
    [l EXCEPT !.mu = 0, !.call[c].pc = "done", !.call[c].resp = status]

handleExecRetriesAgain(attempt) == TRUE
\* handleExec: a failed call is followed by close, redial and a second call
\* only if it was the first call of the request.
handleExecRetriesCall(attempt) == attempt = 1

\* agentConn.Call: ac.mu.Lock() is granted when no other call holds it.
agentConnCallLocks(inCall) == inCall = {}

\* handleExec after ac.Call returned an error, l being the state the call
\* left. First call: close the connection, drop sb.Agent, redial (which may
\* fail: 500) and go on to the second call. Second call: answer 500; the
\* connection stays in sb.Agent.
LinkCallFailed(l, c) ==
    IF handleExecRetriesCall(l.call[c].attempt)
    THEN LET k == l.call[c].conn
             closed == [l EXCEPT !.conns[k].closed = TRUE, !.agent = 0]
         IN \/ link' = LinkAnswer(closed, c, StatusInternalServerError)
            \/ /\ Len(l.conns) < 1 + MaxDials
               /\ link' = [LinkDialed(closed) EXCEPT
                              !.call[c].pc = "write",
                              !.call[c].conn = Len(l.conns) + 1,
                              !.call[c].attempt = l.call[c].attempt + 1]
    ELSE link' = LinkAnswer(l, c, StatusInternalServerError)

\* handleExec: sb.agentMu.Lock(); ac := sb.Agent; dialAgent if it is nil.
LinkExecLock(c) ==
    /\ link.call[c].pc = "idle" /\ link.mu = 0
    /\ LET locked == [link EXCEPT !.mu = c] IN
       IF link.agent # 0
       THEN link' = [locked EXCEPT !.call[c].pc = "write",
                                   !.call[c].conn = link.agent,
                                   !.call[c].attempt = 1]
       ELSE \/ link' = LinkAnswer(locked, c, StatusInternalServerError)
            \/ /\ Len(link.conns) < 1 + MaxDials
               /\ link' = [LinkDialed(locked) EXCEPT
                              !.call[c].pc = "write",
                              !.call[c].conn = Len(link.conns) + 1,
                              !.call[c].attempt = 1]
    /\ UNCHANGED notLinkVars

\* agentConn.Call up to agentrpc.WriteMessage: the request is written, or
\* the write fails and Call returns the error.
LinkCallWrite(c) ==
    /\ link.call[c].pc = "write"
    /\ LET k == link.call[c].conn IN
       /\ agentConnCallLocks(link.conns[k].inCall)
       /\ \/ link' = [link EXCEPT
                 !.conns[k].toAgent = Append(@, <<c, link.call[c].attempt>>),
                 !.conns[k].inCall = @ \cup {c},
                 !.call[c].sent = @ + 1,
                 !.call[c].pc = "read"]
          \/ LinkCallFailed(link, c)
    /\ UNCHANGED notLinkVars

\* agentConn.Call from agentrpc.ReadMessage on: the next response on the
\* connection is read and returned, as an error if it says ok=false; or the
\* read fails (deadline, broken connection) and nothing is consumed.
LinkCallRead(c) ==
    /\ link.call[c].pc = "read"
    /\ LET k == link.call[c].conn
           back == [link EXCEPT !.conns[k].inCall = @ \ {c}]
       IN \/ /\ link.conns[k].toHost # <<>>
             /\ LET resp == Head(link.conns[k].toHost)
                    read == [back EXCEPT !.conns[k].toHost = Tail(@),
                                         !.call[c].got = Append(@, resp)]
                IN IF resp.ok
                   THEN link' = LinkAnswer(read, c, StatusOK)
                   ELSE LinkCallFailed(read, c)
          \/ LinkCallFailed(back, c)
    /\ UNCHANGED notLinkVars

\* serveConn of the guest agent on connection k: read the next request,
\* handle it (runExec starts the command unless argv, the pipes or
\* cmd.Start fail; the reply says ok=false for those and for a failed Wait),
\* write the response. The write fails when the host has closed its end.
LinkAgentServe(k) ==
    /\ k \in 1..Len(link.conns)
    /\ link.conns[k].toAgent # <<>>
    /\ LET rq == Head(link.conns[k].toAgent) IN
       \E out \in {"ran", "nostart", "ranfail"} :
          link' = [link EXCEPT
             !.conns[k].toAgent = Tail(@),
             !.conns[k].toHost =
                 IF link.conns[k].closed THEN @
                 ELSE Append(@, [of |-> rq, ok |-> out = "ran"]),
             !.started[rq[1]] = @ + (IF out = "nostart" THEN 0 ELSE 1)]
    /\ UNCHANGED notLinkVars

\* One sandbox after a successful create: its connection is in sb.Agent.
InitLink ==
    /\ state = [i \in IDs |-> sandboxStateRunning]
    /\ inFlightExec = [i \in IDs |-> 0]
    /\ sbNetns = [i \in IDs |-> IF i = LcSb THEN PoolSlot(LcSb) ELSE NoNetns]
    /\ sbAgent = [i \in IDs |-> IF i = LcSb THEN "open" ELSE "nil"]
    /\ agentMu = [i \in IDs |-> 0]
    /\ nextSandboxID = LcSb
    /\ nextSubnet = InitNextSubnet
    /\ sandboxes = {LcSb}
    /\ poolCh = [k \in 1..(PoolSize - 1) |-> PoolSlot(k + 1)]
    /\ vmm = [i \in IDs |-> IF i = LcSb THEN "alive" ELSE "none"]
    /\ dir = [i \in IDs |-> i = LcSb]
    /\ netnsUp = {PoolSlot(i).Name : i \in 1..PoolSize}
    /\ req = [r \in Reqs |-> NoReq]
    /\ onDemandLog = <<>>
    /\ caller = [c \in Callers |-> NoCaller]
    /\ StoreAtRest
    /\ wire = NoWire
    /\ pool = NoPool
    /\ link = LinkDialed(NoLink)
    /\ loader = NoLoader
    /\ setup = NoSetup
    /\ build = NoBuild

NextLink ==
    \/ \E c \in ExecCallers :
        \/ LinkExecLock(c)
        \/ LinkCallWrite(c)
        \/ LinkCallRead(c)
    \/ \E k \in 1..(1 + MaxDials) : LinkAgentServe(k)

SpecLink == InitLink /\ [][NextLink]_vars

\* =========================================================================
\* Properties of the exec calls (SpecLink)
\* =========================================================================

\* C31: on a connection at most one call is between the write of its
\* request and the read of its response, and a response a call returns to
\* its caller is the response to the request that call wrote, also on a
\* connection on which an earlier call failed or timed out.
C31_ResponsesMatchRequests ==
    /\ \A k \in 1..Len(link.conns) : Cardinality(link.conns[k].inCall) <= 1
    /\ \A c \in ExecCallers :
          \A n \in 1..Len(link.call[c].got) : link.call[c].got[n].of[1] = c

\* C36 as stated: the command of one exec request is started in the guest
\* at most once.
C36_StartedAtMostOnce ==
    \A c \in ExecCallers : link.started[c] <= 1

\* C36: the command of one exec request is started in the guest at most
\* once for each exec RPC the request sent, and the request sends at most
\* two, the second only after the first call returned an error.
C36_StartedAtMostOncePerCall ==
    \A c \in ExecCallers :
        /\ link.started[c] <= link.call[c].sent
        /\ link.call[c].sent <= link.call[c].attempt
        /\ link.call[c].attempt <= 2

\* A request whose first call failed after the agent had the request sent
\* the RPC again, and the guest started the command both times.
C36_Witness ==
    \E c \in ExecCallers :
        /\ link.call[c].pc = "done" /\ link.call[c].resp = StatusOK
        /\ link.call[c].sent = 2 /\ link.started[c] = 2

\* =========================================================================
\* loadSnapshotWithRetry (SpecLoad)
\* =========================================================================

notLoaderVars == <<state, inFlightExec, caller, coreVars, storeVars, wireVars,
                   poolVars, linkVars, setupVars, buildVars>>

\* What fc.loadSnapshot can return: nil, or an error that is ENOENT, is
\* ECONNREFUSED, or is neither (an API error, a timeout).
LoadResults == {"nil", "ENOENT", "ECONNREFUSED", "other"}

isTransientAnyErr(err) == err # "nil"
\* isTransientUnixSocketErr
isTransientUnixSocketErr(err) == err \in {"ENOENT", "ECONNREFUSED"}

\* loadSnapshotWithRetry: deadline := time.Now().Add(timeout).
LoadStart ==
    /\ loader.pc = "idle"
    /\ loader' = [loader EXCEPT !.pc = "attempt",
                                !.deadline = loader.now + LoadTimeoutTicks]
    /\ UNCHANGED notLoaderVars

\* One round of the loop up to the sleep: fc.loadSnapshot, which takes some
\* time; return nil, or return the error if it is not transient or
\* time.Now().After(deadline), else go to sleep.
LoadAttempt ==
    /\ loader.pc = "attempt"
    /\ \E err \in LoadResults, took \in 0..MaxStepTicks :
        LET now == loader.now + took
            log == Append(loader.log, [at |-> loader.now, end |-> now,
                                       err |-> err])
        IN loader' =
            IF err = "nil" \/ ~isTransientUnixSocketErr(err) \/ now > loader.deadline
            THEN [loader EXCEPT !.pc = "done", !.now = now, !.log = log,
                                !.ret = err]
            ELSE [loader EXCEPT !.pc = "sleep", !.now = now, !.log = log]
    /\ UNCHANGED notLoaderVars

\* time.Sleep(20 * time.Millisecond): at least one tick.
LoadSleep ==
    /\ loader.pc = "sleep"
    /\ \E took \in 1..MaxStepTicks :
        loader' = [loader EXCEPT !.pc = "attempt", !.now = loader.now + took]
    /\ UNCHANGED notLoaderVars

NextLoad == LoadStart \/ LoadAttempt \/ LoadSleep

SpecLoad == InitLifecycle /\ [][NextLoad]_vars

\* =========================================================================
\* Properties of loadSnapshotWithRetry (SpecLoad)
\* =========================================================================

\* Attempt n of the run is not the last one made so far.
LoadRetried(n) == n < Len(loader.log)

\* The errors the claim calls transient socket errors.
TransientSocketErrors == {"ENOENT", "ECONNREFUSED"}

\* Once it has returned, the load was attempted and returned what its last
\* attempt returned; every attempt that was followed by another failed with
\* a transient socket error, and an attempt that ended otherwise was
\* followed by the return.
LoadRetriesOnlyTransient ==
    /\ loader.pc = "done" =>
          /\ Len(loader.log) >= 1
          /\ loader.ret = loader.log[Len(loader.log)].err
    /\ \A n \in 1..Len(loader.log) :
          /\ LoadRetried(n) => loader.log[n].err \in TransientSocketErrors
          /\ loader.log[n].err \notin TransientSocketErrors
                => loader.pc = "done"

\* C32 as stated: the load is attempted at least once, retried only after a
\* transient socket error, any other error is returned at once, and no
\* attempt starts once the deadline has passed.
C32_NoAttemptAfterDeadline ==
    /\ LoadRetriesOnlyTransient
    /\ \A n \in 1..Len(loader.log) : loader.log[n].at <= loader.deadline

\* C32: the load is attempted at least once, retried only after a transient
\* socket error, any other error is returned at once, and an attempt that
\* ends after the deadline is the last: a retry follows only an attempt
\* that ended before the deadline passed, so at most one attempt starts
\* after it.
C32_NoRetryAfterDeadline ==
    /\ LoadRetriesOnlyTransient
    /\ \A n \in 1..Len(loader.log) :
          LoadRetried(n) => loader.log[n].end <= loader.deadline
    /\ Cardinality({n \in 1..Len(loader.log) :
                       loader.log[n].at > loader.deadline}) <= 1

\* The load was retried after ECONNREFUSED, its second attempt started
\* after the deadline and failed the same way, and that error was returned.
C32_Witness ==
    /\ loader.pc = "done" /\ loader.ret = "ECONNREFUSED"
    /\ Len(loader.log) >= 2
    /\ loader.log[1].err = "ECONNREFUSED"
    /\ loader.log[Len(loader.log)].at > loader.deadline

\* =========================================================================
\* setupSandboxNetnsAndRouting (SpecSetup)
\* =========================================================================

notSetupVars == <<state, inFlightExec, caller, coreVars, storeVars, wireVars,
                  poolVars, linkVars, loaderVars, buildVars>>

\* netnsNameForSandbox(id): "manta-" + id (no ID here is empty or reaches
\* the cut at 63 characters).
netnsNameForSandbox(id) == <<"manta">> \o id

\* The netnsConfig setupSandboxNetnsAndRouting(id, subnet) computes before
\* it creates anything, and returns on success.
netnsConfigFor(id, subnet) ==
    [NetnsName |-> netnsNameForSandbox(id),
     Subnet |-> subnet,
     VethHost |-> <<"veth", subnet>>,
     VethNS |-> "veth0",
     TapName |-> "tap0",
     VethHostIP |-> <<10, 200, subnet, 1>>,
     VethNSIP |-> <<10, 200, subnet, 2>>,
     VethCIDR |-> <<10, 200, subnet, 0, 30>>,
     HostIP |-> <<172, 16, subnet, 1>>,
     GuestIP |-> <<172, 16, subnet, 2>>,
     SubnetCIDR |-> <<172, 16, subnet, 0, 30>>]

\* The calls the server makes: netnsPool.Init with ("pool-%03d" of i, i),
\* acquireNetns with (the sandbox's ID, the next subnet index). The two
\* counters behind the latter are independent of each other.
SetupInputs ==
    {<< <<"pool", i>>, i >> : i \in 1..MaxPoolSlots}
    \cup {<< <<"sb", n>>, s >> : n \in IDs,
                                  s \in (MaxPoolSlots + 1)..(MaxPoolSlots + 2)}

\* The steps of setupSandboxNetnsAndRouting that can fail, in order.
SetupSteps ==
    <<"netns.Get", "netns.NewNamed", "netns.Set", "netlink.NewHandle",
      "LinkAdd", "LinkByName peer", "LinkSetNsFd", "LinkByName host",
      "ParseAddr", "AddrAdd", "LinkSetUp", "withNetns", "ParseCIDR",
      "ParseIP", "RouteReplace">>

\* What the call has created when step k fails.
setupCreatedBefore(cfg, k) ==
    (IF k > 2 THEN {<<"netns", cfg.NetnsName>>} ELSE {})
    \cup (IF k > 5 THEN {<<"veth", cfg.VethHost>>} ELSE {})

\* What the failing branch of step k and the deferred function remove:
\* the branches of steps 4 to 9 call netns.DeleteNamed, the others do not;
\* the deferred function deletes the veth pair while cleanupVeth is set.
setupRemovedOnFailure(cfg, k) ==
    (IF k \in 4..9 THEN {<<"netns", cfg.NetnsName>>} ELSE {})
    \cup {<<"veth", cfg.VethHost>>}

\* What a successful call leaves on the host.
setupCreated(cfg) ==
    {<<"netns", cfg.NetnsName>>, <<"veth", cfg.VethHost>>,
     <<"route", cfg.SubnetCIDR>>}

\* One call of setupSandboxNetnsAndRouting(id, subnet): it succeeds, or
\* step k fails. A name that exists already makes the creating step fail.
SetupCall ==
    /\ setup.calls < MaxSetupCalls
    /\ \E inp \in SetupInputs, k \in 0..Len(SetupSteps) :
        LET cfg == netnsConfigFor(inp[1], inp[2])
            nsThere == <<"netns", cfg.NetnsName>> \in setup.host
            vethThere == <<"veth", cfg.VethHost>> \in setup.host
        IN /\ nsThere => k \in 1..2
           /\ vethThere => k \in 1..5
           /\ setup' = [setup EXCEPT
                 !.calls = @ + 1,
                 !.host = IF k = 0 THEN @ \cup setupCreated(cfg)
                          ELSE (@ \cup setupCreatedBefore(cfg, k))
                                  \ (setupCreatedBefore(cfg, k)
                                       \cap setupRemovedOnFailure(cfg, k)),
                 !.built = IF k = 0 THEN @ \cup {cfg} ELSE @,
                 !.last = [ns |-> cfg.NetnsName, subnet |-> inp[2],
                           failed |-> IF k = 0 THEN "no" ELSE SetupSteps[k],
                           before |-> setup.host]]
    /\ UNCHANGED notSetupVars

\* cleanupSandboxNetnsAndRouting(cfg, nc) of a slot set up earlier: route,
\* veth pair and netns are deleted.
SetupCleanup ==
    /\ \E cfg \in setup.built :
        /\ setupCreated(cfg) \cap setup.host # {}
        /\ setup' = [setup EXCEPT !.host = @ \ setupCreated(cfg)]
    /\ UNCHANGED notSetupVars

NextSetup == SetupCall \/ SetupCleanup

SpecSetup == InitLifecycle /\ [][NextSetup]_vars

\* =========================================================================
\* Properties of setupSandboxNetnsAndRouting (SpecSetup)
\* =========================================================================

\* C33: the netns name, the veth names and all addresses of a slot are
\* determined by its subnet index alone: two slots set up for the same
\* index, pooled or on demand, have the same names and addresses.
C33_NamesFromSubnetIndex ==
    \A a, b \in setup.built : a.Subnet = b.Subnet => a = b

\* C34: when setupSandboxNetnsAndRouting returns an error, nothing it
\* created remains: the host has no netns, veth pair or route that was not
\* there before the call.
C34_FailedSetupLeavesNothing ==
    setup.last.failed \notin {"none", "no"} => setup.host \subseteq setup.last.before

\* =========================================================================
\* Conservation of the pooled slots (Spec)
\* =========================================================================

\* How often slot nc is waiting in the pool.
TimesInPool(nc) == Cardinality({k \in 1..Len(poolCh) : poolCh[k] = nc})

\* The sandboxes that hold slot nc: being brought up with it, or set up
\* with it and not yet through releaseNetns.
HoldersOf(nc) ==
    {req[r].id : r \in {q \in Reqs : InBringUp(q) /\ req[q].nc = nc}}
    \cup {i \in IDs : sbNetns[i] = nc}

C37_FailedCreateLeavesNoMeta ==
    \A r \in Reqs :
        (req[r].kind = "snapshot" /\ req[r].pc = "done" /\ req[r].snap # 0
            /\ req[r].resp # StatusOK)
        => MetaFile(r) \notin snapFS

\* A user snapshot exists in directory root: its meta.json is there.
SnapshotExistsIn(root) == Append(root, <<"meta.json">>) \in snapFS

\* Request r's create removes and rewrites the files of its snapshot
\* directory in this step.
RewritesFiles(r) ==
    /\ req[r].kind = "snapshot" /\ req[r].pc = "persist"
    /\ req'[r].pc # "persist"

\* C38: a snapshot create never removes or rewrites files in the directory
\* of a user snapshot that exists already, and no file of an existing user
\* snapshot disappears, also when the server was restarted and counts its
\* snapshot IDs from zero again.
C38_CreateKeepsExistingSnapshots ==
    [][\A r \in Reqs :
          RewritesFiles(r) =>
             /\ ~SnapshotExistsIn(SnapshotRoot(r))
             /\ \A n \in 1..MaxReq :
                   SnapshotExistsIn(userSnapshotRootDir(WorkDir, userSnapshotID(n)))
                      => userSnapshotBundle(userSnapshotID(n)) \cap snapFS
                            \subseteq snapFS']_vars

\* =========================================================================
\* Concurrent creates and the golden bundle (SpecBuild)
\* =========================================================================

notBuildVars == <<state, inFlightExec, caller, coreVars, storeVars, wireVars,
                  poolVars, linkVars, loaderVars, setupVars>>

\* fileExists(sp.StateFile) && fileExists(sp.MemFile) && fileExists(sp.BaseDisk)
ensureSnapshotFinds(files) == \A f \in GoldenFiles : files[f] # "absent"

\* The positions of ensureSnapshot between its file test and its return at
\* which it is building the bundle.
BuildingPcs == {"copy", "copying", "boot", "remove", "snap", "snapping"}

\* Creator c is writing file f.
WritesFile(b, c, f) ==
    \/ f = "base" /\ b.pc[c] = "copying"
    \/ f \in {"state", "mem"} /\ b.pc[c] = "snapping"

\* File f when creator c's writer has finished with it: an unlinked file
\* stays absent, a file another writer is still writing stays partial.
fileAfterWrite(b, c, f, ok) ==
    IF b.files[f] = "absent" THEN "absent"
    ELSE IF ~ok \/ \E d \in Creators \ {c} : WritesFile(b, d, f) THEN "partial"
    ELSE "complete"

\* Creator c moves on to position to and leaves the files as given.
buildAfter(c, to, files) == [build EXCEPT !.pc[c] = to, !.files = files]

\* ensureSnapshot: the file test
BuildCheck(c) ==
    /\ build.pc[c] = "idle"
    /\ build' = buildAfter(c, IF ensureSnapshotFinds(build.files)
                                THEN "restore" ELSE "copy", build.files)
    /\ UNCHANGED notBuildVars

\* ensureSnapshot: cp --reflink=auto opens sp.BaseDisk for writing
BuildCopyBegin(c) ==
    /\ build.pc[c] = "copy"
    /\ build' = buildAfter(c, "copying", [build.files EXCEPT !["base"] = "partial"])
    /\ UNCHANGED notBuildVars

\* ensureSnapshot: cp returns
BuildCopyEnd(c) ==
    /\ build.pc[c] = "copying"
    /\ \E ok \in BOOLEAN :
          build' = buildAfter(c, IF ok THEN "boot" ELSE "failed",
                      [build.files EXCEPT
                          !["base"] = fileAfterWrite(build, c, "base", ok)])
    /\ UNCHANGED notBuildVars

\* ensureSnapshot: netns, VM config, firecracker start, agent wait, pause
BuildBoot(c) ==
    /\ build.pc[c] = "boot"
    /\ \E ok \in BOOLEAN :
          build' = buildAfter(c, IF ok THEN "remove" ELSE "failed", build.files)
    /\ UNCHANGED notBuildVars

\* ensureSnapshot: os.Remove(sp.StateFile), os.Remove(sp.MemFile)
BuildRemove(c) ==
    /\ build.pc[c] = "remove"
    /\ build' = buildAfter(c, "snap",
                   [build.files EXCEPT !["state"] = "absent", !["mem"] = "absent"])
    /\ UNCHANGED notBuildVars

\* fc.createFullSnapshot: the VMM creates the two files and starts writing
BuildSnapBegin(c) ==
    /\ build.pc[c] = "snap"
    /\ build' = buildAfter(c, "snapping",
                   [build.files EXCEPT !["state"] = "partial", !["mem"] = "partial"])
    /\ UNCHANGED notBuildVars

\* fc.createFullSnapshot returns
BuildSnapEnd(c) ==
    /\ build.pc[c] = "snapping"
    /\ \E ok \in BOOLEAN :
          build' = buildAfter(c, IF ok THEN "restore" ELSE "failed",
                      [build.files EXCEPT
                          !["state"] = fileAfterWrite(build, c, "state", ok),
                          !["mem"] = fileAfterWrite(build, c, "mem", ok)])
    /\ UNCHANGED notBuildVars

\* createSandboxFromSnapshot: restoreSandboxFromArtifacts reads the files
BuildRestore(c) ==
    /\ build.pc[c] = "restore"
    /\ build' = [build EXCEPT !.pc[c] = "done", !.used[c] = build.files]
    /\ UNCHANGED notBuildVars

NextBuild ==
    \E c \in Creators :
        \/ BuildCheck(c)
        \/ BuildCopyBegin(c)
        \/ BuildCopyEnd(c)
        \/ BuildBoot(c)
        \/ BuildRemove(c)
        \/ BuildSnapBegin(c)
        \/ BuildSnapEnd(c)
        \/ BuildRestore(c)

SpecBuild == InitLifecycle /\ [][NextBuild]_vars

\* The creates that are building the bundle.
Builders == {c \in Creators : build.pc[c] \in BuildingPcs}

C40_InitSuccessMeansFullPool ==
    pool.ret = "nil" =>
        /\ Len(pool.all) = pool.size
        /\ {pool.all[k] : k \in 1..Len(pool.all)} = PoolSlots(pool.size)

====
